---- MODULE Spec2Model ----
(***************************************************************************)
(* Figma asset synchronisation: the change detector of the script exporter *)
(* (scripts/01-figma-enhanced-svg-exporter-v2.0.py), the change detector   *)
(* and sync service of the server (server/services/change_detector.py,     *)
(* server/services/figma_sync.py), the Figma API client's retry loops and  *)
(* the export loops of the server and of the modular export engine         *)
(* (scripts/modules/04-export-engine-v1.0.py).                             *)
(***************************************************************************)
EXTENDS Integers, Sequences, FiniteSets, TLC

(***************************************************************************)
(* Bounds of the model.                                                    *)
(***************************************************************************)
\* longest list of current nodes handed to detect_changes
MaxNodes == 2
\* batch size configured for the modelled runs (settings.figma.batch_size and
\* the batch_size parameter of export_nodes_batch default to 10)
BatchSize == 1
\* most nodes handed to one export loop
MaxJobs == 3
\* most requests of one API operation the model follows
MaxRequests == 5

\* most segments of a node id handed to the resolver
MaxParts == 3

\* name filters: nodes in a call, include patterns, exclude patterns
MaxFilterNodes == 2

MaxIncludes == 1

MaxExcludes == 1

\* most characters of a name handed to a sanitizer, after an optional long run
MaxTail == 3

\* settings.figma.max_retries
MaxRetries == 3
\* settings.figma.retry_delay, in seconds
RetryDelay == 60
\* max_attempts of resolve_node_with_fallbacks
MaxAttempts == 5

\* length limit of sanitize_filename
MaxFileNameLength == 100

\* Figma node ids of the modelled file
NodeIds == {"1:1", "1:2"}
\* values of a node's (lastModified, version): a node without timestamp, then
\* edited (lastModified set), then edited again (version raised)
NodeValues ==
    {[lm |-> "None", ver |-> 0], [lm |-> "t1", ver |-> 0], [lm |-> "t1", ver |-> 1]}
\* the values each node of the file takes: designers edit node 1:1 only
ValuesOf(id) == IF id = "1:1" THEN NodeValues ELSE {[lm |-> "None", ver |-> 0]}

VARIABLES
    impl,       \* which implementation runs: "script" or "server"
    cacheFile,  \* content of the JSON cache file on disk
    det,        \* the ChangeDetector instance (last_export_data)
    result,     \* the last detect_changes call: arguments, return value, prints
    svc,        \* the exporter or service instance and its run in flight
    api,        \* the FigmaAPIClient operation in flight
    exp,        \* an export loop over the batches of a run
    pipe,       \* a run of the production pipeline over its stages
    fn          \* the call of a pure function: its arguments and its result

detVars == <<impl, cacheFile, det, result, svc>>
vars == <<impl, cacheFile, det, result, svc, api, exp, pipe, fn>>

(***************************************************************************)
(* Data                                                                    *)
(***************************************************************************)
EmptyMap == [i \in {} |-> [lm |-> "None", ver |-> 0]]

\* all sequences over S of length at most n
SeqsUpTo(S, n) == UNION {[1..k -> S] : k \in 0..n}

\* all orders in which a set can be iterated
Orders(S) == {s \in [1..Cardinality(S) -> S] : \A i, j \in 1..Cardinality(S) : s[i] = s[j] => i = j}

\* number of positions of s with change status c
CountStatus(s, c) == Cardinality({i \in 1..Len(s) : s[i].change = c})

\* The node dictionaries a fetch can produce: exportable nodes of the file
\* with their lastModified and version.
NodeDict(id, v) ==
    [id |-> id, type |-> "FRAME", width |-> 24, height |-> 24, lm |-> v.lm, ver |-> v.ver]

NodeDicts == UNION {{NodeDict(id, v) : v \in ValuesOf(id)} : id \in NodeIds}

\* The lists of current nodes a fetch can produce: a node id occurring twice
\* carries the same data both times.
Fetches ==
    {c \in SeqsUpTo(NodeDicts, MaxNodes) :
        \A i, j \in 1..Len(c) : c[i].id = c[j].id => c[i] = c[j]}

\* File contents: absent; unparsable text; valid JSON that is no object;
\* an object whose "nodes" is no object; a cache object with its nodes.
FileAbsent == [kind |-> "absent", nodes |-> EmptyMap]
FileGarbage == [kind |-> "garbage", nodes |-> EmptyMap]
FileNonDict == [kind |-> "nondict", nodes |-> EmptyMap]
FileBadNodes == [kind |-> "badnodes", nodes |-> EmptyMap]
FileOk(nodes) == [kind |-> "ok", nodes |-> nodes]

\* A detector instance: last_export_data (bad: its "nodes" is no object), whether
\* loading printed the warning, the kind of file it was loaded from and how
\* often detect_changes has run on this instance (0, 1, 2 for more).
NoDetector ==
    [loaded |-> FALSE, bad |-> FALSE, nodes |-> EmptyMap, warned |-> FALSE,
     src |-> "none", calls |-> 0]

NoStats == [new |-> 0, modified |-> 0, unchanged |-> 0, deleted |-> 0]

\* One detect_changes call: kind (none, ok, raised), its argument current, the
\* cached nodes it compared with, the returned records and stats (live: still
\* in the memory of the process), whether the run it belongs to wrote the
\* cache (none, written, failed), how far the run got, and what the call
\* before it was: "sameDone" when that call got the same list of current
\* nodes and its run ended normally, "sameAborted" when it got the same list
\* and its run was killed after detection, before any export; "other" else.
\* summary is the final summary process_sync returned for the run, if it did:
\* its skipped count and the force_sync the run was given.
NoSummary == [given |-> FALSE, skipped |-> 0, force |-> FALSE]

NoResult ==
    [kind |-> "none", live |-> FALSE, current |-> <<>>, cached |-> EmptyMap,
     records |-> <<>>, stats |-> NoStats, saved |-> "none", run |-> "none",
     prev |-> "other", summary |-> NoSummary]

\* The exporter or service instance: whether it exists, where its run stands
\* (idle, detected, export), force_sync, the batches already processed and
\* self.stats["skipped"].
NoService == [up |-> FALSE, pc |-> "idle", force |-> FALSE, done |-> 0, skipped |-> 0]

\* An API operation: which one, whether it is idle, busy or returned, the
\* requests it has issued, the responses it got, the seconds it slept and
\* what it returned (none, data, fail).
NoApi ==
    [op |-> "none", phase |-> "idle", requests |-> 0, log |-> <<>>, slept |-> 0,
     value |-> "none"]

\* An export loop: the engine (server, modular), the number of nodes, per node
\* what happened to it, the status it was given and whether an error message
\* was recorded, the completed and failed counters, the position of the next
\* node, the phase (request, nodes, sleep, done, crashed), the positions of
\* the current batch that got a URL, whether the loop slept since the last
\* batch, and per batch boundary whether a sleep lay between the batches.
NoExport ==
    [engine |-> "none", n |-> 0, cause |-> <<>>, status |-> <<>>, err |-> <<>>,
     completed |-> 0, failed |-> 0, pos |-> 1, phase |-> "done", urls |-> {},
     slept |-> FALSE, gaps |-> <<>>]

\* A pipeline run: whether the API token and the file key are missing,
\* malformed or valid; stages_to_execute and the position in it; whether the
\* context holds credentials; the stages that issued an HTTP request, in
\* order; the success of each executed stage; the summary's success once the
\* run is over.
NoPipeline ==
    [token |-> "valid", key |-> "valid", stages |-> <<>>, pos |-> 1, creds |-> FALSE,
     requests |-> <<>>, ok |-> <<>>, pc |-> "none", success |-> FALSE]

\* No call of a pure function.
NoCall == [op |-> "none"]

(***************************************************************************)
(* ChangeDetector                                                          *)
(***************************************************************************)
\* _load_cache: json.load and the len(data.get("nodes", {})) of the print run
\* inside the try; any exception prints the warning and yields the empty cache.
LoadCache(file) ==
    CASE file.kind = "ok" ->
            [loaded |-> TRUE, bad |-> FALSE, nodes |-> file.nodes, warned |-> FALSE,
             src |-> file.kind, calls |-> 0]
      [] file.kind = "badnodes" ->
            [loaded |-> TRUE, bad |-> TRUE, nodes |-> EmptyMap, warned |-> FALSE,
             src |-> file.kind, calls |-> 0]
      [] file.kind = "absent" ->
            [loaded |-> TRUE, bad |-> FALSE, nodes |-> EmptyMap, warned |-> FALSE,
             src |-> file.kind, calls |-> 0]
      [] OTHER ->
            [loaded |-> TRUE, bad |-> FALSE, nodes |-> EmptyMap, warned |-> TRUE,
             src |-> file.kind, calls |-> 0]

\* The change status of one current node against the cached nodes.
ClassifyLmOnly(cached, node) ==
    IF node.id \notin DOMAIN cached THEN "new"
    ELSE IF node.lm = cached[node.id].lm THEN "unchanged"
    ELSE "modified"

Classify(cached, node) ==
    IF node.id \notin DOMAIN cached THEN "new"
    ELSE IF node.lm = cached[node.id].lm /\ node.ver = cached[node.id].ver
         THEN "unchanged"
    ELSE "modified"

\* The NodeInfo built for one current node.
CurrentRecord(cached, node) ==
    [id |-> node.id, change |-> Classify(cached, node), type |-> node.type,
     width |-> node.width, height |-> node.height, lm |-> node.lm, ver |-> node.ver]

\* The NodeInfo the script synthesises for a cached id missing from the fetch.
DeletedRecord(cached, id) ==
    [id |-> id, change |-> "deleted", type |-> "DELETED",
     width |-> 0, height |-> 0, lm |-> "None", ver |-> cached[id].ver]

CurrentRecords(cached, current) ==
    [i \in 1..Len(current) |-> CurrentRecord(cached, current[i])]

CurrentIds(current) == {current[i].id : i \in 1..Len(current)}

DeletedIds(cached, current) == DOMAIN cached \ CurrentIds(current)

\* The "nodes" object _save_cache builds from a list of NodeInfo: a dict
\* comprehension keyed by node.id, a later record replacing an earlier one.
CacheNodesOf(records) ==
    [id \in {records[i].id : i \in 1..Len(records)} |->
        LET last == CHOOSE i \in 1..Len(records) :
                        /\ records[i].id = id
                        /\ \A j \in 1..Len(records) : records[j].id = id => j <= i
        IN [lm |-> records[last].lm, ver |-> records[last].ver]]

\* changes_stats after the loop over the current nodes (one increment per list
\* element) and the count of the deleted ids.
StatsOfDistinct(recs, nDeleted) ==
    [new |-> Cardinality({recs[i].id : i \in {j \in 1..Len(recs) : recs[j].change = "new"}}),
     modified |-> Cardinality({recs[i].id : i \in {j \in 1..Len(recs) : recs[j].change = "modified"}}),
     unchanged |-> Cardinality({recs[i].id : i \in {j \in 1..Len(recs) : recs[j].change = "unchanged"}}),
     deleted |-> nDeleted]

StatsOf(recs, nDeleted) ==
    [new |-> CountStatus(recs, "new"),
     modified |-> CountStatus(recs, "modified"),
     unchanged |-> CountStatus(recs, "unchanged"),
     deleted |-> nDeleted]

\* What the call about to be made on current is to the call recorded in r.
PrevOf(r, current) ==
    IF r.kind # "ok" \/ r.current # current \/ r.saved = "failed" THEN "other"
    ELSE IF r.run \in {"completed", "uptodate"} THEN "sameDone"
    ELSE IF r.run = "abortedBeforeExport" THEN "sameAborted"
    ELSE "other"

\* The record of a detect_changes call that raised (last_export_data["nodes"]
\* has no .get and no .keys).
Raised(d, current) ==
    [NoResult EXCEPT !.kind = "raised", !.live = TRUE, !.current = current,
                     !.run = "raised"]

\* The record of a detect_changes call that returned.
Returned(d, current, records, stats, saved, run) ==
    [kind |-> "ok", live |-> TRUE, current |-> current, cached |-> d.nodes,
     records |-> records, stats |-> stats, saved |-> saved, run |-> run,
     prev |-> PrevOf(result, current), summary |-> NoSummary]

\* What is left of a call's record once its process is gone: the list it got
\* and how its run ended, for a call that returned and whose run did not fail
\* to write the cache.
Forgotten(r, run) ==
    IF r.kind = "ok" /\ r.saved # "failed"
       /\ run \in {"completed", "uptodate", "detected", "abortedBeforeExport"}
    THEN [NoResult EXCEPT !.kind = "ok", !.current = r.current, !.saved = r.saved,
                          !.run = run]
    ELSE NoResult

\* The updated_nodes list of the script's detect_changes: the current nodes'
\* records followed by one DELETED record per missing cached id, in the order
\* the set of deleted ids is iterated.
ScriptUpdatedNodes(cached, current, order) ==
    CurrentRecords(cached, current)
        \o [i \in 1..Len(order) |-> DeletedRecord(cached, order[i])]

\* What _save_cache leaves on disk: the new object, or the old content when
\* mkdir/open/dump raised (the exception is caught and a warning printed).
SaveCacheSkipped(file, records, ok) == file

SaveCache(file, records, ok) ==
    IF ok THEN FileOk(CacheNodesOf(records)) ELSE file

(***************************************************************************)
(* The script exporter: EnhancedFigmaExporter and its ChangeDetector       *)
(***************************************************************************)
\* EnhancedFigmaExporter.__init__: constructs the ChangeDetector, which loads
\* the cache file.
ScriptNew ==
    /\ impl = "script"
    /\ ~svc.up
    /\ svc' = [NoService EXCEPT !.up = TRUE]
    /\ det' = LoadCache(cacheFile)
    /\ UNCHANGED <<impl, cacheFile, result>>
    /\ UNCHANGED <<api, exp, pipe, fn>>

\* export_nodes up to the return of detect_changes, which ends by saving the
\* cache; current are the fetched nodes that passed the export criteria.
ScriptDetect ==
    /\ impl = "script"
    /\ svc.up /\ svc.pc = "idle"
    /\ \E current \in Fetches :
        IF det.bad
        THEN /\ result' = Raised(det, current)
             /\ UNCHANGED <<cacheFile, svc>>
        ELSE \E order \in Orders(DeletedIds(det.nodes, current)), ok \in BOOLEAN :
             LET records == ScriptUpdatedNodes(det.nodes, current, order)
                 stats == StatsOf(CurrentRecords(det.nodes, current), Len(order))
             IN /\ cacheFile' = SaveCache(cacheFile, records, ok)
                /\ result' = Returned(det, current, records, stats,
                                      IF ok THEN "written" ELSE "failed", "detected")
                /\ svc' = [svc EXCEPT !.pc = "detected"]
    /\ det' = [det EXCEPT !.calls = IF @ = 0 THEN 1 ELSE 2]
    /\ UNCHANGED impl
    /\ UNCHANGED <<api, exp, pipe, fn>>

\* The rest of export_nodes: export names, duplicate metadata, GitHub push.
ScriptFinish ==
    /\ impl = "script"
    /\ svc.up /\ svc.pc = "detected"
    /\ svc' = [svc EXCEPT !.pc = "idle"]
    /\ result' = [result EXCEPT !.run = "completed"]
    /\ UNCHANGED <<impl, cacheFile, det>>
    /\ UNCHANGED <<api, exp, pipe, fn>>

(***************************************************************************)
(* The server: FigmaSyncService.process_sync                               *)
(***************************************************************************)
\* nodes_to_export[i : i + batch_size] for i in range(0, len, batch_size)
RECURSIVE Batches(_)
Batches(nodes) ==
    IF nodes = <<>> THEN <<>>
    ELSE IF Len(nodes) <= BatchSize THEN <<nodes>>
    ELSE <<SubSeq(nodes, 1, BatchSize)>> \o Batches(SubSeq(nodes, BatchSize + 1, Len(nodes)))

IsChanged(rec) == rec.change \in {"new", "modified"}

\* nodes_to_export of process_sync
NodesToExport(nodes, force) == IF force THEN nodes ELSE SelectSeq(nodes, IsChanged)

\* FigmaSyncService(): a new service without a change detector.
NewService ==
    /\ impl = "server"
    /\ ~svc.up
    /\ svc' = [NoService EXCEPT !.up = TRUE]
    /\ det' = NoDetector
    /\ UNCHANGED <<impl, cacheFile, result>>
    /\ UNCHANGED <<api, exp, pipe, fn>>

\* process_sync from its start to its first return, raise or export batch:
\* detector setup when the service has none, file info, node structure,
\* detect_changes (which neither adds DELETED records nor saves the cache),
\* selection of the nodes to export.
SyncStart ==
    /\ impl = "server"
    /\ svc.up /\ svc.pc = "idle"
    /\ \E current \in Fetches, force \in BOOLEAN, fetched \in {"ok", "nofile", "nonode"} :
        LET d == IF det.loaded THEN det ELSE LoadCache(cacheFile)
            records == CurrentRecords(d.nodes, current)
            stats == StatsOf(records, Cardinality(DeletedIds(d.nodes, current)))
            todo == NodesToExport(records, force)
        IN
        CASE fetched # "ok" ->
                /\ det' = d
                /\ UNCHANGED <<result, svc>>
          [] fetched = "ok" /\ d.bad ->
                /\ det' = [d EXCEPT !.calls = IF @ = 0 THEN 1 ELSE 2]
                /\ result' = Raised(d, current)
                /\ UNCHANGED svc
          [] fetched = "ok" /\ ~d.bad /\ todo = <<>> ->
                /\ det' = [d EXCEPT !.calls = IF @ = 0 THEN 1 ELSE 2]
                /\ result' = Returned(d, current, records, stats, "none", "uptodate")
                /\ UNCHANGED svc
          [] OTHER ->
                /\ det' = [d EXCEPT !.calls = IF @ = 0 THEN 1 ELSE 2]
                /\ result' = Returned(d, current, records, stats, "none", "detected")
                /\ svc' = [svc EXCEPT !.pc = "export", !.force = force, !.done = 0]
    /\ UNCHANGED <<impl, cacheFile>>
    /\ UNCHANGED <<api, exp, pipe, fn>>

\* _process_batch on the next batch of the run: the export request for its
\* ids, the download and write of each node, the sleep.
\* The skipped count goes to the local batch_stats, which process_sync drops;
\* self.stats["skipped"] is not written.
SyncBatch ==
    /\ impl = "server"
    /\ svc.up /\ svc.pc = "export"
    /\ svc.done < Len(Batches(NodesToExport(result.records, svc.force)))
    /\ svc' = [svc EXCEPT !.done = @ + 1]
    /\ result' = [result EXCEPT !.run = "exporting"]
    /\ UNCHANGED <<impl, cacheFile, det>>
    /\ UNCHANGED <<api, exp, pipe, fn>>

\* The final summary of process_sync, read from self.stats.
Summary(s) == [given |-> TRUE, skipped |-> s.skipped, force |-> s.force]

\* process_sync after its last batch: _save_cache(nodes), the report, the
\* returned summary.
SyncFinish ==
    /\ impl = "server"
    /\ svc.up /\ svc.pc = "export"
    /\ svc.done = Len(Batches(NodesToExport(result.records, svc.force)))
    /\ \E ok \in BOOLEAN :
        /\ cacheFile' = SaveCache(cacheFile, result.records, ok)
        /\ result' = [result EXCEPT !.saved = IF ok THEN "written" ELSE "failed",
                                    !.run = "completed",
                                    !.summary = Summary(svc)]
    /\ svc' = [svc EXCEPT !.pc = "idle", !.force = FALSE, !.done = 0]
    /\ UNCHANGED <<impl, det>>
    /\ UNCHANGED <<api, exp, pipe, fn>>

(***************************************************************************)
(* The environment                                                         *)
(***************************************************************************)
\* The process ends (the run is over, or it is killed between two steps): the
\* instances are gone, the cache file stays.
ProcessExit ==
    /\ svc.up
    /\ svc' = NoService
    /\ det' = NoDetector
    /\ result' = Forgotten(result,
                    CASE result.run = "detected" /\ svc.pc # "idle" -> "abortedBeforeExport"
                      [] result.run = "exporting" /\ svc.pc # "idle" -> "abortedInExport"
                      [] OTHER -> result.run)
    /\ UNCHANGED <<impl, cacheFile>>
    /\ UNCHANGED <<api, exp, pipe, fn>>

(***************************************************************************)
(* Specification of change detection and sync runs                         *)
(***************************************************************************)
Init ==
    /\ impl \in {"script", "server"}
    /\ cacheFile \in {FileAbsent, FileGarbage, FileNonDict, FileBadNodes}
    /\ det = NoDetector
    /\ result = NoResult
    /\ svc = NoService
    /\ api = NoApi
    /\ exp = NoExport
    /\ pipe = NoPipeline
    /\ fn = NoCall

Next ==
    \/ ScriptNew
    \/ ScriptDetect
    \/ ScriptFinish
    \/ NewService
    \/ SyncStart
    \/ SyncBatch
    \/ SyncFinish
    \/ ProcessExit

Spec == Init /\ [][Next]_vars

(***************************************************************************)
(* Change detection: claims                                                *)
(***************************************************************************)
AllUnchanged(r) == \A i \in 1..Len(r.current) : r.records[i].change = "unchanged"

AllNew(r) == \A i \in 1..Len(r.current) : r.records[i].change = "new"

\* C1: the stats detect_changes returns satisfy new + modified + unchanged =
\* number of current nodes, and deleted = number of cached ids that are not
\* among the current ids (both implementations).
C1_StatsAccount ==
    (result.live /\ result.kind = "ok") =>
        /\ result.stats.new + result.stats.modified + result.stats.unchanged
                = Len(result.current)
        /\ result.stats.deleted
                = Cardinality(DOMAIN result.cached \ {result.current[i].id : i \in 1..Len(result.current)})

\* C1 witness: a call on a list naming one cached node twice while another
\* cached node is missing from it.
C1_Witness ==
    /\ result.live /\ result.kind = "ok"
    /\ Len(result.current) = 2 /\ result.current[1].id = result.current[2].id
    /\ result.stats.modified = 2 /\ result.stats.deleted = 1

\* C2 (as claimed): a detect_changes call that follows a completed run on the
\* same list of current nodes (same lastModified and version) classifies
\* every current node UNCHANGED, with a reused instance as with a fresh one.
C2_SecondRunUnchanged ==
    (result.live /\ result.kind = "ok" /\ result.prev = "sameDone") => AllUnchanged(result)

\* C3: each current node is NEW when its id is not in the cache, UNCHANGED
\* when it is and lastModified and version both equal the cached values, and
\* MODIFIED otherwise.
C3_Classification ==
    (result.live /\ result.kind = "ok") =>
        /\ Len(result.records) >= Len(result.current)
        /\ \A i \in 1..Len(result.current) :
            LET n == result.current[i]
                r == result.records[i]
                known == n.id \in DOMAIN result.cached
            IN /\ r.id = n.id
               /\ ~known => r.change = "new"
               /\ (known /\ n.lm = result.cached[n.id].lm /\ n.ver = result.cached[n.id].ver)
                     => r.change = "unchanged"
               /\ (known /\ ~(n.lm = result.cached[n.id].lm /\ n.ver = result.cached[n.id].ver))
                     => r.change = "modified"

\* C3 witness: a node classified MODIFIED whose lastModified equals the cached
\* one (only its version differs), next to a node classified NEW.
C3_Witness ==
    /\ result.live /\ result.kind = "ok"
    /\ \E i, j \in 1..Len(result.current) :
        /\ result.records[i].change = "modified"
        /\ result.current[i].lm = result.cached[result.current[i].id].lm
        /\ result.records[j].change = "new"

\* C4 (as claimed): for every cached id missing from the current fetch,
\* detect_changes returns a record with change status DELETED, type "DELETED"
\* and width and height zero.
C4_DeletedRecords ==
    (result.live /\ result.kind = "ok") =>
        \A id \in DOMAIN result.cached \ {result.current[i].id : i \in 1..Len(result.current)} :
            \E j \in 1..Len(result.records) :
                /\ result.records[j].id = id
                /\ result.records[j].change = "deleted"
                /\ result.records[j].type = "DELETED"
                /\ result.records[j].width = 0
                /\ result.records[j].height = 0

\* The cache file holds the (lastModified, version) of every current node of
\* the call.
CacheHoldsCurrent(file, r) ==
    /\ file.kind = "ok"
    /\ \A i \in 1..Len(r.current) :
        /\ r.current[i].id \in DOMAIN file.nodes
        /\ file.nodes[r.current[i].id] = [lm |-> r.current[i].lm, ver |-> r.current[i].ver]

C6_CacheIsCurrentFetch ==
    (result.live /\ result.kind = "ok" /\ result.saved = "written") =>
        /\ cacheFile.kind = "ok"
        /\ DOMAIN cacheFile.nodes = {result.current[i].id : i \in 1..Len(result.current)}

\* C7 (as claimed): with a malformed cache file, constructing the detector and
\* calling detect_changes raises nothing, a warning is printed and every
\* current node is NEW.
C7_MalformedCacheIsEmpty ==
    (result.live /\ det.calls = 1 /\ det.src \in {"garbage", "nondict", "badnodes"}) =>
        /\ result.kind = "ok"
        /\ det.warned
        /\ AllNew(result)

(***************************************************************************)
(* The API client: FigmaAPIClient and its handling of HTTP 429             *)
(***************************************************************************)
ApiOps == {"get_file_info", "get_node_structure", "export_svg_batch"}

\* what the operation has slept in total after one more sleep of d seconds
SleepMore(a, d) == a.slept + d

\* the operation hands v back to its caller
ApiReturn(a, resp, v) ==
    [a EXCEPT !.phase = "returned", !.requests = @ + 1, !.log = Append(@, resp),
              !.value = v]

\* A caller invokes an operation of the client; export_svg_batch on an empty
\* id list returns {} without a request.
ApiCall ==
    /\ api.phase # "busy"
    /\ \E op \in ApiOps, noIds \in BOOLEAN :
        /\ noIds => op = "export_svg_batch"
        /\ api' = IF noIds
                  THEN [NoApi EXCEPT !.op = op, !.phase = "returned", !.value = "fail"]
                  ELSE [NoApi EXCEPT !.op = op, !.phase = "busy"]
    /\ UNCHANGED <<detVars, exp, pipe, fn>>

\* One request of get_file_info and what it does with the response: 200 with
\* JSON returns the data, 200 without parsable JSON, another status or an
\* exception returns None, 429 sleeps retry_delay and calls get_file_info
\* again.
GetFileInfo ==
    /\ api.phase = "busy" /\ api.op = "get_file_info"
    /\ api.requests < MaxRequests
    /\ \E resp \in {"ok", "badjson", "r429", "status", "exception"} :
        api' = CASE resp = "ok" -> ApiReturn(api, resp, "data")
                 [] resp = "r429" ->
                        [api EXCEPT !.requests = @ + 1, !.log = Append(@, resp),
                                    !.slept = SleepMore(api, RetryDelay)]
                 [] OTHER -> ApiReturn(api, resp, "fail")
    /\ UNCHANGED <<detVars, exp, pipe, fn>>

\* One request of get_node_structure: 200 naming the node returns its
\* document, 200 without it, another status or an exception returns None, 429
\* sleeps retry_delay and calls get_node_structure again.
GetNodeStructure ==
    /\ api.phase = "busy" /\ api.op = "get_node_structure"
    /\ api.requests < MaxRequests
    /\ \E resp \in {"ok", "missing", "r429", "status", "exception"} :
        api' = CASE resp = "ok" -> ApiReturn(api, resp, "data")
                 [] resp = "r429" ->
                        [api EXCEPT !.requests = @ + 1, !.log = Append(@, resp),
                                    !.slept = SleepMore(api, RetryDelay)]
                 [] OTHER -> ApiReturn(api, resp, "fail")
    /\ UNCHANGED <<detVars, exp, pipe, fn>>

\* the backoff export_svg_batch sleeps after a failed attempt (0-based)
Backoff(attempt) == IF attempt < MaxRetries - 1 THEN 2 ^ attempt ELSE 0

\* One iteration of the loop of export_svg_batch, for attempt in
\* range(max_retries): 200 with images returns them; 429 sleeps retry_delay;
\* every failed attempt but the last then sleeps 2 ** attempt; after the last
\* attempt the method returns {}.
ExportSvgBatch ==
    /\ api.phase = "busy" /\ api.op = "export_svg_batch"
    /\ api.requests < MaxRetries
    /\ \E resp \in {"ok", "noimages", "r429", "status", "exception"} :
        LET attempt == api.requests
            waited == (IF resp = "r429" THEN RetryDelay ELSE 0) + Backoff(attempt)
        IN api' = IF resp = "ok" THEN ApiReturn(api, resp, "data")
                  ELSE [api EXCEPT !.requests = @ + 1, !.log = Append(@, resp),
                                   !.slept = SleepMore(api, waited),
                                   !.phase = IF attempt + 1 = MaxRetries
                                             THEN "returned" ELSE "busy",
                                   !.value = IF attempt + 1 = MaxRetries
                                             THEN "fail" ELSE "none"]
    /\ UNCHANGED <<detVars, exp, pipe, fn>>

InitApi ==
    /\ impl = "server"
    /\ cacheFile = FileAbsent
    /\ det = NoDetector
    /\ result = NoResult
    /\ svc = NoService
    /\ api = NoApi
    /\ exp = NoExport
    /\ pipe = NoPipeline
    /\ fn = NoCall

NextApi ==
    \/ ApiCall
    \/ GetFileInfo
    \/ GetNodeStructure
    \/ ExportSvgBatch

SpecApi == InitApi /\ [][NextApi]_vars

(***************************************************************************)
(* The API client: claims                                                  *)
(***************************************************************************)
RateLimited(a) == {i \in 1..Len(a.log) : a.log[i] = "r429"}

\* C9 (as claimed): an operation of the client that is answered 429 issues at
\* most max_retries requests, has slept retry_delay after each 429, and has
\* returned a failure once max_retries requests were answered 429.
C9_BoundedFixedDelayRetry ==
    RateLimited(api) # {} =>
        /\ api.requests <= MaxRetries
        /\ api.slept >= RetryDelay * Cardinality(RateLimited(api))
        /\ (Cardinality(RateLimited(api)) = MaxRetries =>
                api.phase = "returned" /\ api.value = "fail")

(***************************************************************************)
(* The export loops: process_sync/_process_batch of the server and         *)
(* export_nodes_batch/process_batch of the modular export engine           *)
(***************************************************************************)
Engines == {"server", "modular"}

\* what can happen to a node that did not end as a written SVG file
Failures == {"nourls", "nourl", "request", "download", "empty", "write"}

\* An export loop about to start on n nodes: the modular engine's
\* create_export_jobs gives every job the status pending, the server keeps no
\* status per node.
StartExport(engine, n) ==
    [NoExport EXCEPT !.engine = engine, !.n = n,
                     !.cause = [i \in 1..n |-> "none"],
                     !.status = [i \in 1..n |-> IF engine = "modular" THEN "pending" ELSE "none"],
                     !.err = [i \in 1..n |-> FALSE],
                     !.phase = IF engine = "server" THEN "request" ELSE "nodes"]

\* position of the last node of the batch that holds position pos
BatchEnd(pos, n) ==
    LET last == (((pos - 1) \div BatchSize) + 1) * BatchSize
    IN IF last < n THEN last ELSE n

\* pos is the first node of a batch other than the first batch
OpensLaterBatch(pos) == pos > 1 /\ (pos - 1) % BatchSize = 0

\* the record of the boundaries between batches, once the batch at pos starts
GapsAt(e) == IF OpensLaterBatch(e.pos) THEN Append(e.gaps, e.slept) ELSE e.gaps

\* _process_batch of the server up to its loop over the nodes: the batch's
\* ids go to export_svg_batch; without URLs the batch is counted as failed in
\* batch_stats only (self.stats is left alone) and the method returns before
\* its sleep.
ProcessBatchRequest ==
    /\ exp.engine = "server" /\ exp.phase = "request"
    /\ LET last == BatchEnd(exp.pos, exp.n)
       IN \E urls \in SUBSET (exp.pos..last) :
            exp' = IF urls = {}
                   THEN [exp EXCEPT
                            !.cause = [i \in 1..exp.n |->
                                        IF i \in exp.pos..last THEN "nourls" ELSE @[i]],
                            !.pos = last + 1,
                            !.phase = IF last = exp.n THEN "done" ELSE "request",
                            !.gaps = GapsAt(exp),
                            !.slept = FALSE]
                   ELSE [exp EXCEPT !.urls = urls, !.phase = "nodes",
                                    !.gaps = GapsAt(exp), !.slept = FALSE]
    /\ UNCHANGED <<detVars, api, pipe, fn>>

\* One iteration of the node loop of _process_batch: a node without a URL is
\* failed; otherwise _save_node_svg downloads and writes it, and returns
\* False when the download gave nothing or anything raised.
SaveNodeSvg ==
    /\ exp.engine = "server" /\ exp.phase = "nodes"
    /\ \E o \in {"ok", "nourl", "download", "write"} :
        /\ (o = "nourl") <=> (exp.pos \notin exp.urls)
        /\ exp' = [exp EXCEPT
                      !.cause[exp.pos] = o,
                      !.completed = IF o = "ok" THEN @ + 1 ELSE @,
                      !.failed = IF o = "ok" THEN @ ELSE @ + 1,
                      !.pos = @ + 1,
                      !.phase = IF exp.pos = BatchEnd(exp.pos, exp.n)
                                THEN "sleep" ELSE "nodes"]
    /\ UNCHANGED <<detVars, api, pipe, fn>>

\* The end of _process_batch: asyncio.sleep(delay_between_batches), then the
\* loop of process_sync takes the next batch or ends.
BatchSleep ==
    /\ exp.engine = "server" /\ exp.phase = "sleep"
    /\ exp' = [exp EXCEPT !.slept = TRUE, !.urls = {},
                          !.phase = IF exp.pos > exp.n THEN "done" ELSE "request"]
    /\ UNCHANGED <<detVars, api, pipe, fn>>

\* One iteration of the job loop of the modular process_batch, reached from
\* the batch loop of export_nodes_batch without any sleep: export_single_node
\* turns a failed request or download into a failed job with an error
\* message; a downloaded body, empty or not, leaves the job completed; an
\* empty body is counted as failed; open/write of the file is not guarded, so
\* an OSError there leaves export_nodes_batch.
ProcessJob ==
    /\ exp.engine = "modular" /\ exp.phase = "nodes"
    /\ \E o \in {"ok", "request", "download", "empty", "write"} :
        LET caught == o \in {"request", "download"}
            marked == [exp EXCEPT
                          !.cause[exp.pos] = o,
                          !.status[exp.pos] = IF caught THEN "failed" ELSE "completed",
                          !.err[exp.pos] = caught,
                          !.gaps = GapsAt(exp),
                          !.slept = FALSE]
        IN exp' = IF o = "write"
                  THEN [marked EXCEPT !.phase = "crashed"]
                  ELSE [marked EXCEPT
                           !.completed = IF o = "ok" THEN @ + 1 ELSE @,
                           !.failed = IF o = "ok" THEN @ ELSE @ + 1,
                           !.pos = @ + 1,
                           !.phase = IF exp.pos = exp.n THEN "done" ELSE "nodes"]
    /\ UNCHANGED <<detVars, api, pipe, fn>>

InitExport ==
    /\ impl = "server"
    /\ cacheFile = FileAbsent
    /\ det = NoDetector
    /\ result = NoResult
    /\ svc = NoService
    /\ api = NoApi
    /\ pipe = NoPipeline
    /\ fn = NoCall
    /\ exp \in {StartExport(e, n) : e \in Engines, n \in 1..MaxJobs}

NextExport ==
    \/ ProcessBatchRequest
    \/ SaveNodeSvg
    \/ BatchSleep
    \/ ProcessJob

SpecExport == InitExport /\ [][NextExport]_vars

(***************************************************************************)
(* The export loops: claims                                                *)
(***************************************************************************)
FailedNodes(e) == {i \in 1..e.n : e.cause[i] \in Failures}

\* C8 (as claimed): a node whose export or download fails is marked failed
\* with its error message (modular engine) and counted as failed, the run is
\* not aborted by it, and at the end every node has been attempted and the
\* failed counter is the number of nodes that failed.
C8_NodeFailureIsolated ==
    /\ exp.phase # "crashed"
    /\ \A i \in FailedNodes(exp) :
            exp.engine = "modular" => (exp.status[i] = "failed" /\ exp.err[i])
    /\ exp.phase = "done" =>
            /\ \A i \in 1..exp.n : exp.cause[i] # "none"
            /\ exp.failed = Cardinality(FailedNodes(exp))
            /\ exp.completed = exp.n - Cardinality(FailedNodes(exp))

\* C10 (as claimed): the batches are taken strictly one after another in
\* order, and the loop has slept between every two consecutive batches.
C10_SleepBetweenBatches ==
    /\ \A i \in 1..exp.n : (exp.cause[i] # "none") <=> (i < exp.pos \/ (i = exp.pos /\ exp.phase = "crashed"))
    /\ \A k \in 1..Len(exp.gaps) : exp.gaps[k]

(***************************************************************************)
(* The sync summary: claims                                                *)
(***************************************************************************)
\* C11 (as claimed): the final summary of a sync run reports a skipped count
\* equal to the number of UNCHANGED nodes of the run that were not exported
\* because force_sync was off.
C11_SkippedCount ==
    (impl = "server" /\ result.live /\ result.summary.given) =>
        result.summary.skipped =
            IF result.summary.force THEN 0 ELSE CountStatus(result.records, "unchanged")

(***************************************************************************)
(* The production pipeline (PipelineOrchestrator.execute_pipeline) and the *)
(* construction of the sync service, with respect to credentials           *)
(***************************************************************************)
Credentials == {"missing", "malformed", "valid"}

\* the stages a pipeline configuration can enable, in the order of the
\* configuration; credentials_loader comes first
LaterStages == <<"figma_unified_processor", "node_processor", "export_engine">>

\* stages_to_execute: credentials_loader and the enabled later stages
StagesToExecute(enabled) ==
    LET Enabled(st) == st \in enabled
    IN <<"credentials_loader">> \o SelectSeq(LaterStages, Enabled)

StageLists ==
    {StagesToExecute(e) : e \in SUBSET {LaterStages[i] : i \in 1..Len(LaterStages)}}
        \cup {<<"sync_service">>}

StartPipeline(token, key, stages) ==
    [NoPipeline EXCEPT !.token = token, !.key = key, !.stages = stages, !.pc = "run"]

\* the stage the loop of execute_pipeline is about to execute
StageIs(name) ==
    /\ pipe.pc = "run"
    /\ pipe.pos <= Len(pipe.stages)
    /\ pipe.stages[pipe.pos] = name

\* the stage has run: its result, the requests it issued, the credentials its
\* result puts into the context
StageDone(p, ok, requested, creds) ==
    [p EXCEPT !.pos = @ + 1,
              !.ok = Append(@, ok),
              !.requests = IF requested THEN Append(@, p.stages[p.pos]) ELSE @,
              !.creds = creds]

\* load_and_validate_credentials: the token and file key formats are
\* validated, the connectivity test (one GET) runs only when both are valid,
\* and the stage succeeds only when that test got a 200; only then does
\* _build_execution_context put the credentials into the context.
CredentialsLoaderStage ==
    /\ StageIs("credentials_loader")
    /\ LET valid == pipe.token = "valid" /\ pipe.key = "valid"
       IN \E connected \in BOOLEAN :
            /\ connected => valid
            /\ pipe' = StageDone(pipe, valid /\ connected, valid, valid /\ connected)
    /\ UNCHANGED <<detVars, api, exp, fn>>

\* The figma_unified_processor stage: token and file key are read from the
\* context with "" as default, and process_file_unified fetches the file
\* pages whatever they are. Its result is a UnifiedProcessingResult, on which
\* _build_execution_context calls .get: the stage is recorded as failed and
\* the context is not extended.
UnifiedProcessorStage ==
    /\ StageIs("figma_unified_processor")
    /\ pipe' = StageDone(pipe, FALSE, TRUE, pipe.creds)
    /\ UNCHANGED <<detVars, api, exp, fn>>

\* The node_processor stage: the context never holds figma_data, so
\* process_nodes returns "Invalid pages data provided".
NodeProcessorStage ==
    /\ StageIs("node_processor")
    /\ pipe' = StageDone(pipe, FALSE, FALSE, pipe.creds)
    /\ UNCHANGED <<detVars, api, exp, fn>>

\* The export_engine stage: the context never holds processed_data, so
\* export_nodes_batch returns "Invalid processed data provided".
ExportEngineStage ==
    /\ StageIs("export_engine")
    /\ pipe' = StageDone(pipe, FALSE, FALSE, pipe.creds)
    /\ UNCHANGED <<detVars, api, exp, fn>>

\* FigmaSyncService() followed by process_sync(file_key, ...): the
\* constructor raises ValueError when FIGMA_API_TOKEN is empty; process_sync
\* does not look at the file key before get_file_info requests the file.
SyncServiceStage ==
    /\ StageIs("sync_service")
    /\ IF pipe.token = "missing"
       THEN pipe' = StageDone(pipe, FALSE, FALSE, FALSE)
       ELSE \E answered \in BOOLEAN :
                /\ answered => (pipe.token = "valid" /\ pipe.key = "valid")
                /\ pipe' = StageDone(pipe, answered, TRUE, FALSE)
    /\ UNCHANGED <<detVars, api, exp, fn>>

\* The summary of the run: success when every executed stage succeeded.
PipelineSummary ==
    /\ pipe.pc = "run"
    /\ pipe.pos > Len(pipe.stages)
    /\ pipe' = [pipe EXCEPT !.pc = "done",
                            !.success = \A i \in 1..Len(pipe.ok) : pipe.ok[i]]
    /\ UNCHANGED <<detVars, api, exp, fn>>

InitPipeline ==
    /\ impl = "server"
    /\ cacheFile = FileAbsent
    /\ det = NoDetector
    /\ result = NoResult
    /\ svc = NoService
    /\ api = NoApi
    /\ exp = NoExport
    /\ fn = NoCall
    /\ pipe \in {StartPipeline(t, k, st) : t \in Credentials, k \in Credentials,
                                            st \in StageLists}

NextPipeline ==
    \/ CredentialsLoaderStage
    \/ UnifiedProcessorStage
    \/ NodeProcessorStage
    \/ ExportEngineStage
    \/ SyncServiceStage
    \/ PipelineSummary

SpecPipeline == InitPipeline /\ [][NextPipeline]_vars

(***************************************************************************)
(* Credentials: claims                                                     *)
(***************************************************************************)
\* C12 (as claimed): when the API token or the file key is missing, no stage
\* or step of the run issues an HTTP request and the run is reported failed.
C12_NoRequestWithoutCredentials ==
    (pipe.token = "missing" \/ pipe.key = "missing") =>
        /\ pipe.requests = <<>>
        /\ pipe.pc = "done" => ~pipe.success

(***************************************************************************)
(* Node ids: NodeIdConverter and FigmaNodeResolver                         *)
(***************************************************************************)
\* A node id is its numeric segments and the separator between them: "431-22256"
\* is [sep |-> "-", parts |-> <<431, 22256>>], "431" has the separator "none".
SegmentValues == {0, 1, 431, 22256}

MakeId(sep, parts) == [sep |-> IF Len(parts) = 1 THEN "none" ELSE sep, parts |-> parts]

ResolverInputs ==
    {MakeId(sep, parts) : sep \in {":", "-"},
                           parts \in UNION {[1..k -> SegmentValues] : k \in 1..MaxParts}}

RootId == MakeId(":", <<0, 1>>)

\* detect_format: the first of dash_format, colon_format, full_path,
\* page_node whose pattern matches
DetectFormat(id) ==
    CASE id.sep = "-" /\ Len(id.parts) = 2 -> "dash_format"
      [] id.sep = ":" /\ Len(id.parts) = 2 -> "colon_format"
      [] id.sep = ":" /\ Len(id.parts) > 2 -> "full_path"
      [] OTHER -> "none"

\* convert_dash_to_colon / convert_colon_to_dash
ConvertDashToColon(id) ==
    IF DetectFormat(id) = "dash_format" THEN MakeId(":", id.parts) ELSE id

ConvertColonToDash(id) ==
    IF DetectFormat(id) = "colon_format" THEN MakeId("-", id.parts) ELSE id

\* The list get_alternative_formats builds before list(set(...)): the
\* original, its opposite-punctuation form, the parent of an id that contains
\* a colon, and the root unless it is already there.
AlternativesList(id) ==
    LET opposite == CASE DetectFormat(id) = "dash_format" -> <<ConvertDashToColon(id)>>
                      [] DetectFormat(id) = "colon_format" -> <<ConvertColonToDash(id)>>
                      [] OTHER -> <<>>
        parent == IF id.sep = ":" /\ Len(id.parts) > 1
                  THEN <<MakeId(":", SubSeq(id.parts, 1, Len(id.parts) - 1))>>
                  ELSE <<>>
        listed == <<id>> \o opposite \o parent
    IN IF \E i \in 1..Len(listed) : listed[i] = RootId THEN listed
       ELSE Append(listed, RootId)

\* get_alternative_formats returns list(set(alternatives)): the distinct
\* alternatives in the iteration order of a set of strings, which is any order.
GetAlternativeFormats(id) ==
    LET listed == AlternativesList(id)
    IN Orders({listed[i] : i \in 1..Len(listed)})

\* alternative_ids[:max_attempts]
AttemptIds(alternatives) ==
    SubSeq(alternatives, 1, IF Len(alternatives) < MaxAttempts
                            THEN Len(alternatives) ELSE MaxAttempts)

NotResolved == [found |-> FALSE, resolved_id |-> RootId, node_data |-> RootId]

\* resolve_node_with_fallbacks called on id, before its first fetch
StartResolve(id, alternatives) ==
    [op |-> "resolve", id |-> id, attempts |-> AttemptIds(alternatives),
     tried |-> <<>>, outcomes |-> <<>>, pc |-> "trying", value |-> NotResolved]

\* One iteration of the loop of resolve_node_with_fallbacks never ending it: a
\* found node is only logged.
AfterFetchKeepsGoing(f, outcome) ==
    LET attempt == f.attempts[Len(f.tried) + 1]
    IN [f EXCEPT !.tried = Append(@, attempt), !.outcomes = Append(@, outcome),
                 !.value = IF outcome = "found"
                           THEN [found |-> TRUE, resolved_id |-> attempt, node_data |-> attempt]
                           ELSE @]

\* One iteration of the loop of resolve_node_with_fallbacks: the next
\* attempt id is fetched with get_node_structure; a document is returned with
\* the id that fetched it; None or an exception moves on to the next id.
AfterFetch(f, outcome) ==
    LET attempt == f.attempts[Len(f.tried) + 1]
    IN [f EXCEPT !.tried = Append(@, attempt), !.outcomes = Append(@, outcome),
                 !.pc = IF outcome = "found" THEN "returned" ELSE @,
                 !.value = IF outcome = "found"
                           THEN [found |-> TRUE, resolved_id |-> attempt, node_data |-> attempt]
                           ELSE @]

ResolveAttempt ==
    /\ fn.op = "resolve" /\ fn.pc = "trying"
    /\ Len(fn.tried) < Len(fn.attempts)
    /\ \E outcome \in {"found", "notfound", "raised"} : fn' = AfterFetch(fn, outcome)
    /\ UNCHANGED <<detVars, api, exp, pipe>>

\* The loop is over without a document: the resolver returns None.
ResolveExhausted ==
    /\ fn.op = "resolve" /\ fn.pc = "trying"
    /\ Len(fn.tried) = Len(fn.attempts)
    /\ fn' = [fn EXCEPT !.pc = "returned"]
    /\ UNCHANGED <<detVars, api, exp, pipe>>

InitResolver ==
    /\ impl = "server"
    /\ cacheFile = FileAbsent
    /\ det = NoDetector
    /\ result = NoResult
    /\ svc = NoService
    /\ api = NoApi
    /\ exp = NoExport
    /\ pipe = NoPipeline
    /\ fn \in UNION {{StartResolve(id, alts) : alts \in GetAlternativeFormats(id)}
                        : id \in ResolverInputs}

NextResolver ==
    \/ ResolveAttempt
    \/ ResolveExhausted

SpecResolver == InitResolver /\ [][NextResolver]_vars

(***************************************************************************)
(* Node ids: claims                                                        *)
(***************************************************************************)
\* C13: resolve_node_with_fallbacks fetches the candidate ids one at a time in
\* the order of its candidate list, returns the document together with the
\* candidate id of the first fetch that succeeds without fetching any further
\* id, and returns None when every candidate's fetch found nothing or raised.
C13_FirstSuccess ==
    fn.op = "resolve" =>
        /\ Len(fn.tried) <= Len(fn.attempts)
        /\ \A i \in 1..Len(fn.tried) : fn.tried[i] = fn.attempts[i]
        /\ \A i \in 1..Len(fn.tried) : fn.outcomes[i] = "found" => i = Len(fn.tried)
        /\ (fn.pc = "trying") => \A i \in 1..Len(fn.tried) : fn.outcomes[i] # "found"
        /\ (fn.pc = "returned") =>
              IF \E i \in 1..Len(fn.tried) : fn.outcomes[i] = "found"
              THEN /\ fn.value.found
                   /\ fn.value.resolved_id = fn.tried[Len(fn.tried)]
                   /\ fn.value.node_data = fn.tried[Len(fn.tried)]
              ELSE /\ ~fn.value.found
                   /\ fn.tried = fn.attempts

\* C13 witness: a call that returned the document of its third candidate
\* after the first was not found and the second raised.
C13_Witness ==
    /\ fn.op = "resolve" /\ fn.pc = "returned" /\ fn.value.found
    /\ fn.outcomes = <<"notfound", "raised", "found">>
    /\ Len(fn.attempts) = 4
    /\ fn.value.resolved_id = fn.attempts[3]

\* C14 (as claimed): for the input "431-22256" the candidates contain
\* "431:22256", the parent "431" and the root "0:1", and they are attempted in
\* the order original, opposite-punctuation form, parent, root, the root last.
C14_CandidateOrder ==
    (fn.op = "resolve" /\ fn.id = MakeId("-", <<431, 22256>>)) =>
        fn.attempts = << MakeId("-", <<431, 22256>>), MakeId(":", <<431, 22256>>),
                         MakeId(":", <<431>>), RootId >>

(***************************************************************************)
(* Name filters                                                            *)
(***************************************************************************)
\* Names and patterns are sequences of characters.  Every name and pattern
\* below is lower case, so the lower() calls and re.IGNORECASE of the filters
\* leave them as they are.
SvgExporterPrefix == <<"s","v","g","_","e","x","p","o","r","t","e","r","_">>

ImgExporterPrefix == <<"i","m","g","_","e","x","p","o","r","t","e","r","_">>

\* "svg_exporter_button", "icon_home", "temp_draft", "svg_exporter_draft"
FilterNames ==
    { SvgExporterPrefix \o <<"b","u","t","t","o","n">>,
      <<"i","c","o","n","_","h","o","m","e">>,
      <<"t","e","m","p","_","d","r","a","f","t">>,
      SvgExporterPrefix \o <<"d","r","a","f","t">> }

\* "svg_exporter_*", "icon_*", "temp_*", "*draft", "icon"
FilterPatterns ==
    { SvgExporterPrefix \o <<"*">>,
      <<"i","c","o","n","_","*">>,
      <<"t","e","m","p","_","*">>,
      <<"*","d","r","a","f","t">>,
      <<"i","c","o","n">> }

ExportTypes == {"nodeID", "svg_exporter_", "img_exporter_", "other"}

FilterImpls == {"filter_engine", "server", "script", "unified"}

\* The node lists handed to a filter: the id of a node is its position.
FilterNodeLists ==
    { [i \in 1..Len(names) |-> [id |-> i, name |-> names[i]]] :
        names \in SeqsUpTo(FilterNames, MaxFilterNodes) }

StartsWith(name, prefix) ==
    /\ Len(name) >= Len(prefix)
    /\ SubSeq(name, 1, Len(prefix)) = prefix

\* The match of a compiled wildcard pattern at the start of a text: "*" is
\* ".*", a character of anyOne matches any one character, every other
\* character matches itself; whole asks for the match to end at the end of
\* the text.
RECURSIVE Match(_, _, _, _)
Match(pattern, text, anyOne, whole) ==
    IF pattern = <<>> THEN (whole => text = <<>>)
    ELSE IF Head(pattern) = "*"
         THEN \/ Match(Tail(pattern), text, anyOne, whole)
              \/ (text # <<>> /\ Match(pattern, Tail(text), anyOne, whole))
    ELSE /\ text # <<>>
         /\ (Head(pattern) \in anyOne \/ Head(pattern) = Head(text))
         /\ Match(Tail(pattern), Tail(text), anyOne, whole)

\* FilterEngine._compile_pattern and its match: re.escape makes every
\* character but "*" literal and the pattern is anchored with ^ and $.
CompilePatternMatch(pattern, text) == Match(pattern, text, {}, TRUE)

\* FilterEngine._matches_any_pattern
MatchesAnyPattern(text, patterns) ==
    \E i \in 1..Len(patterns) : CompilePatternMatch(patterns[i], text)

\* FilterEngine._should_include_node
ShouldIncludeNode(node_name, include_patterns, exclude_patterns) ==
    LET should_include == IF include_patterns = <<>> THEN TRUE
                          ELSE MatchesAnyPattern(node_name, include_patterns)
    IN IF should_include /\ exclude_patterns # <<>>
       THEN ~MatchesAnyPattern(node_name, exclude_patterns)
       ELSE should_include

\* ChangeDetector._matches_pattern: "*" becomes ".*" and "?" becomes ".",
\* nothing is escaped, and re.match anchors the start of the name only.
MatchesPattern(name, patterns) ==
    \E i \in 1..Len(patterns) : Match(patterns[i], name, {"?", "."}, FALSE)

\* fnmatch.fnmatch: the whole name against a shell pattern ("*" and "?").
Fnmatch(name, pattern) == Match(pattern, name, {"?"}, TRUE)

\* FigmaUnifiedProcessor._matches_prefix_pattern
MatchesPrefixPattern(node_name, patterns) ==
    IF patterns = <<>> THEN FALSE
    ELSE \E i \in 1..Len(patterns) : Fnmatch(node_name, patterns[i])

\* re.compile of a pattern used as it is: a "*" with nothing before it, or
\* straight after another "*", is an re.error.
RegexCompiles(pattern) ==
    /\ pattern # <<>> => pattern[1] # "*"
    /\ \A i \in 1..(Len(pattern) - 1) : ~(pattern[i] = "*" /\ pattern[i + 1] = "*")

\* The match of a raw regular expression at the start of a text: "*" repeats
\* the character before it, "." is any character.
RECURSIVE RawMatch(_, _)
RawMatch(pattern, text) ==
    IF pattern = <<>> THEN TRUE
    ELSE IF Len(pattern) >= 2 /\ pattern[2] = "*"
         THEN \/ RawMatch(SubSeq(pattern, 3, Len(pattern)), text)
              \/ /\ text # <<>>
                 /\ (pattern[1] = "." \/ pattern[1] = Head(text))
                 /\ RawMatch(pattern, Tail(text))
    ELSE /\ text # <<>>
         /\ (pattern[1] = "." \/ pattern[1] = Head(text))
         /\ RawMatch(Tail(pattern), Tail(text))

\* re.search(pattern, name): a match starting anywhere in the name.
ReSearch(pattern, name) ==
    \E i \in 1..(Len(name) + 1) : RawMatch(pattern, SubSeq(name, i, Len(name)))

\* One "for pattern in patterns: if re.search(...)" loop of should_export_node:
\* "match" at the first pattern found in the name, "raised" at a pattern that
\* does not compile, "none" when the loop ends.
RECURSIVE SearchLoop(_, _)
SearchLoop(patterns, name) ==
    IF patterns = <<>> THEN "none"
    ELSE IF ~RegexCompiles(Head(patterns)) THEN "raised"
    ELSE IF ReSearch(Head(patterns), name) THEN "match"
    ELSE SearchLoop(Tail(patterns), name)

\* ExportCriteriaProcessor.should_export_node: "yes", "no" or "raised".
ShouldExportNode(node_name, include_patterns, exclude_patterns, export_type) ==
    LET excluded == SearchLoop(exclude_patterns, node_name)
        included == SearchLoop(include_patterns, node_name)
    IN IF excluded = "raised" THEN "raised"
       ELSE IF excluded = "match" THEN "no"
       ELSE IF include_patterns # <<>>
            THEN (IF included = "raised" THEN "raised"
                  ELSE IF included = "match" THEN "yes" ELSE "no")
       ELSE IF export_type = "nodeID" THEN "yes"
       ELSE IF export_type = "svg_exporter_"
            THEN (IF StartsWith(node_name, SvgExporterPrefix) THEN "yes" ELSE "no")
       ELSE IF export_type = "img_exporter_"
            THEN (IF StartsWith(node_name, ImgExporterPrefix) THEN "yes" ELSE "no")
       ELSE "yes"

\* A call of one of the filters, before it ran.
FilterCall(which, nodes, include, exclude, targets, export_type) ==
    [op |-> "filter", impl |-> which, nodes |-> nodes, include |-> include,
     exclude |-> exclude, targets |-> targets, export_type |-> export_type,
     pc |-> "called", raised |-> FALSE, value |-> <<>>]

FilterReturn(f, value) == [f EXCEPT !.pc = "returned", !.value = value]

\* FilterEngine.filter_nodes_by_criteria on one page of visible nodes, with
\* both pattern lists given.
FilterNodesByCriteria ==
    /\ fn.op = "filter" /\ fn.pc = "called" /\ fn.impl = "filter_engine"
    /\ fn' = FilterReturn(fn, SelectSeq(fn.nodes,
                LAMBDA node : ShouldIncludeNode(node.name, fn.include, fn.exclude)))
    /\ UNCHANGED <<detVars, api, exp, pipe>>

\* ChangeDetector.apply_naming_filters
ApplyNamingFilters ==
    /\ fn.op = "filter" /\ fn.pc = "called" /\ fn.impl = "server"
    /\ fn' = FilterReturn(fn, SelectSeq(fn.nodes,
                LAMBDA node :
                    /\ ~(fn.include # <<>> /\ ~MatchesPattern(node.name, fn.include))
                    /\ ~(fn.exclude # <<>> /\ MatchesPattern(node.name, fn.exclude))))
    /\ UNCHANGED <<detVars, api, exp, pipe>>

\* The filter loop at the head of EnhancedFigmaExporter.export_nodes: an
\* re.error of should_export_node leaves export_nodes as an exception.
ExportNodesFilter ==
    /\ fn.op = "filter" /\ fn.pc = "called" /\ fn.impl = "script"
    /\ LET verdict(node) == ShouldExportNode(node.name, fn.include, fn.exclude,
                                             fn.export_type)
       IN IF \E i \in 1..Len(fn.nodes) : verdict(fn.nodes[i]) = "raised"
          THEN fn' = [fn EXCEPT !.pc = "returned", !.raised = TRUE]
          ELSE fn' = FilterReturn(fn, SelectSeq(fn.nodes,
                         LAMBDA node : verdict(node) = "yes"))
    /\ UNCHANGED <<detVars, api, exp, pipe>>

\* should_include of _apply_unified_filtering with "and" between the two
\* filters.
UnifiedShouldIncludeAnd(matches_prefix, matches_target) ==
    matches_prefix /\ matches_target

\* should_include of _apply_unified_filtering
UnifiedShouldInclude(matches_prefix, matches_target) ==
    matches_prefix \/ matches_target

\* FigmaUnifiedProcessor._apply_unified_filtering on one page: the exclude
\* patterns of the configuration are not part of UnifiedFilterCriteria.
ApplyUnifiedFiltering ==
    /\ fn.op = "filter" /\ fn.pc = "called" /\ fn.impl = "unified"
    /\ fn' = FilterReturn(fn, SelectSeq(fn.nodes,
                LAMBDA node :
                    LET matches_prefix == MatchesPrefixPattern(node.name, fn.include)
                        matches_target == IF fn.targets # {} THEN node.id \in fn.targets
                                          ELSE FALSE
                    IN UnifiedShouldInclude(matches_prefix, matches_target)))
    /\ UNCHANGED <<detVars, api, exp, pipe>>

\* The target-node sets and export types a call of one filter is given.
TargetSets(which, nodes) ==
    IF which = "unified" THEN SUBSET (1..Len(nodes)) ELSE {{}}

ExportTypesOf(which) == IF which = "script" THEN ExportTypes ELSE {"nodeID"}

\* The end-to-end scenario: nodes 1 "svg_exporter_button", 2 "icon_home" and
\* 3 "temp_draft", include "svg_exporter_*" and "icon_*", exclude "temp_*".
ScenarioNodes ==
    << [id |-> 1, name |-> SvgExporterPrefix \o <<"b","u","t","t","o","n">>],
       [id |-> 2, name |-> <<"i","c","o","n","_","h","o","m","e">>],
       [id |-> 3, name |-> <<"t","e","m","p","_","d","r","a","f","t">>] >>

ScenarioInclude == << SvgExporterPrefix \o <<"*">>, <<"i","c","o","n","_","*">> >>

ScenarioExclude == << <<"t","e","m","p","_","*">> >>

InitFilter ==
    /\ impl = "server"
    /\ cacheFile = FileAbsent
    /\ det = NoDetector
    /\ result = NoResult
    /\ svc = NoService
    /\ api = NoApi
    /\ exp = NoExport
    /\ pipe = NoPipeline
    /\ \E which \in FilterImpls, nodes \in FilterNodeLists,
          include \in SeqsUpTo(FilterPatterns, MaxIncludes),
          exclude \in SeqsUpTo(FilterPatterns, MaxExcludes) :
            \E targets \in TargetSets(which, nodes), export_type \in ExportTypesOf(which) :
                \/ fn = FilterCall(which, nodes, include, exclude, targets, export_type)
                \/ fn = FilterCall(which, ScenarioNodes, ScenarioInclude, ScenarioExclude,
                                   {}, "nodeID")

NextFilter ==
    \/ FilterNodesByCriteria
    \/ ApplyNamingFilters
    \/ ExportNodesFilter
    \/ ApplyUnifiedFiltering

SpecFilter == InitFilter /\ [][NextFilter]_vars

(***************************************************************************)
(* Name filters: claims                                                    *)
(***************************************************************************)
\* The whole name matches the wildcard pattern, "*" standing for any run of
\* characters.
WholeNameMatches(name, patterns) ==
    \E i \in 1..Len(patterns) : Match(patterns[i], name, {}, TRUE)

\* C15 (as claimed): a node whose name matches any exclude pattern is never
\* in the result of a filter, whether or not it matches an include pattern.
C15_ExcludeWins ==
    (fn.op = "filter" /\ fn.pc = "returned" /\ ~fn.raised) =>
        \A i \in 1..Len(fn.value) : ~WholeNameMatches(fn.value[i].name, fn.exclude)

\* The nodes the claimed pattern filter keeps: those whose whole name matches
\* an include pattern and no exclude pattern, in input order.
ExactlyMatching(nodes, include, exclude) ==
    SelectSeq(nodes, LAMBDA node : /\ WholeNameMatches(node.name, include)
                                   /\ ~WholeNameMatches(node.name, exclude))

\* C16 (as claimed): given include patterns, the pattern filter (FilterEngine,
\* ChangeDetector.apply_naming_filters) returns exactly the nodes whose whole
\* name matches at least one include wildcard pattern and no exclude pattern,
\* in their input order; in the scenario that is nodes 1 and 2 in that order.
C16_ExactlyMatching ==
    (/\ fn.op = "filter" /\ fn.pc = "returned"
     /\ fn.impl \in {"filter_engine", "server"}
     /\ fn.include # <<>>) =>
        /\ fn.value = ExactlyMatching(fn.nodes, fn.include, fn.exclude)
        /\ (fn.nodes = ScenarioNodes /\ fn.include = ScenarioInclude
                                     /\ fn.exclude = ScenarioExclude) =>
              fn.value = <<ScenarioNodes[1], ScenarioNodes[2]>>

\* C17 (as claimed): a filter called without include patterns returns every
\* node except those whose name matches an exclude pattern.
C17_NoIncludeKeepsAll ==
    (fn.op = "filter" /\ fn.pc = "returned" /\ ~fn.raised /\ fn.include = <<>>) =>
        fn.value = SelectSeq(fn.nodes,
                             LAMBDA node : ~WholeNameMatches(node.name, fn.exclude))

\* C19: the unified processor keeps a node if and only if its name matches a
\* prefix pattern or its id is in the target-node list, in input order.
C19_PrefixOrTarget ==
    (fn.op = "filter" /\ fn.pc = "returned" /\ fn.impl = "unified") =>
        fn.value = SelectSeq(fn.nodes, LAMBDA node :
                       \/ WholeNameMatches(node.name, fn.include)
                       \/ node.id \in fn.targets)

\* C19 witness: a returned unified call on two nodes whose names match no
\* prefix pattern, the first of them a target: only the first is kept.
C19_Witness ==
    /\ fn.op = "filter" /\ fn.pc = "returned" /\ fn.impl = "unified"
    /\ Len(fn.nodes) = 2 /\ fn.include # <<>>
    /\ fn.targets = {1}
    /\ ~WholeNameMatches(fn.nodes[1].name, fn.include)
    /\ ~WholeNameMatches(fn.nodes[2].name, fn.include)
    /\ fn.value = <<fn.nodes[1]>>

(***************************************************************************)
(* Node processor                                                          *)
(***************************************************************************)
\* naming_prefixes of the configuration, in the order of the NamingPrefixes
\* fields: svg_exporter_, img_exporter_, icon_exporter_.
NamingPrefixes ==
    << [key |-> "svg_exporter", value |-> SvgExporterPrefix],
       [key |-> "img_exporter", value |-> ImgExporterPrefix],
       [key |-> "icon_exporter",
        value |-> <<"i","c","o","n","_","e","x","p","o","r","t","e","r","_">>] >>

NoPrefix == "None"

\* "svg_exporter_button", "icon_home", "svg_exporter_a/b"
ProcessorNames ==
    { SvgExporterPrefix \o <<"b","u","t","t","o","n">>,
      <<"i","c","o","n","_","h","o","m","e">>,
      SvgExporterPrefix \o <<"a","/","b">> }

ProcessorTypes == {"FRAME", "SECTION"}

\* Node ids as their ":"-separated segments: "1:2", "1:3", "1:2:7".
ProcessorIds == { <<1, 2>>, <<1, 3>>, <<1, 2, 7>> }

VisibleNodes == [id : ProcessorIds, name : ProcessorNames, type : ProcessorTypes]

\* The visible nodes of a page: nodes with distinct ids.
VisibleNodeLists ==
    { nodes \in SeqsUpTo(VisibleNodes, MaxFilterNodes) :
        \A i, j \in 1..Len(nodes) : nodes[i].id = nodes[j].id => i = j }

InvalidChars == {"<", ">", ":", "\"", "/", "\\", "|", "?", "*"}

ValidTypes == {"FRAME", "GROUP", "COMPONENT", "INSTANCE", "RECTANGLE",
               "ELLIPSE", "POLYGON", "STAR", "VECTOR", "TEXT"}

MaxNameLength == 100

\* NodeProcessor.detect_prefix: the key of the first configured prefix the
\* name starts with, and the rest of the name.
RECURSIVE DetectPrefixFrom(_, _)
DetectPrefixFrom(prefixes, node_name) ==
    IF prefixes = <<>> THEN [prefix |-> NoPrefix, base_name |-> node_name]
    ELSE IF StartsWith(node_name, Head(prefixes).value)
         THEN [prefix |-> Head(prefixes).key,
               base_name |-> SubSeq(node_name, Len(Head(prefixes).value) + 1,
                                    Len(node_name))]
    ELSE DetectPrefixFrom(Tail(prefixes), node_name)

DetectPrefix(node_name) == DetectPrefixFrom(NamingPrefixes, node_name)

\* NodeProcessor.validate_node: the kinds of error found.
ValidateNode(node_name, node_type) ==
    {"empty" : x \in {1} \cap (IF node_name = <<>> THEN {1} ELSE {})}
    \cup {"too_long" : x \in {1} \cap (IF Len(node_name) > MaxNameLength THEN {1} ELSE {})}
    \cup {"invalid_chars" : x \in {i \in 1..Len(node_name) : node_name[i] \in InvalidChars}}
    \cup {"unsupported_type" : x \in {1} \cap (IF node_type \notin ValidTypes THEN {1} ELSE {})}

\* NodeProcessor._is_target_node: the config it is handed has no "figma" key,
\* so only the enabled target_nodes list counts.
IsTargetNode(node_id, cfg) == cfg.enabled /\ node_id \in cfg.node_ids

\* export_ready of get_filtered_nodes_for_export with "or" between the two
\* filters.
ExportReadyOr(validation_errors, prefix, is_target) ==
    validation_errors = {} /\ (prefix # NoPrefix \/ is_target)

\* export_ready of get_filtered_nodes_for_export
ExportReady(validation_errors, prefix, is_target) ==
    validation_errors = {} /\ (prefix # NoPrefix /\ is_target)

\* The ProcessedNode built for one visible node.
ProcessedNode(node, cfg) ==
    LET detected == DetectPrefix(node.name)
        validation_errors == ValidateNode(node.name, node.type)
        is_target == IsTargetNode(node.id, cfg)
    IN [id |-> node.id, name |-> node.name, type |-> node.type,
        prefix |-> detected.prefix, base_name |-> detected.base_name,
        is_target |-> is_target, validation_errors |-> validation_errors,
        export_ready |-> ExportReady(validation_errors, detected.prefix, is_target)]

\* NodeProcessor._get_child_nodes: the nodes whose id starts with the parent
\* id and a ":".
GetChildNodes(parent_node_id, all_nodes) ==
    SelectSeq(all_nodes, LAMBDA node :
        /\ Len(node.id) > Len(parent_node_id)
        /\ SubSeq(node.id, 1, Len(parent_node_id)) = parent_node_id)

\* NodeProcessor._filter_target_nodes: each target node followed by its
\* children when process_children is set.
RECURSIVE FilterTargetNodesFrom(_, _, _)
FilterTargetNodesFrom(rest, all_nodes, cfg) ==
    IF rest = <<>> THEN <<>>
    ELSE (IF Head(rest).id \in cfg.node_ids
          THEN <<Head(rest)>> \o (IF cfg.process_children
                                  THEN GetChildNodes(Head(rest).id, all_nodes)
                                  ELSE <<>>)
          ELSE <<>>)
         \o FilterTargetNodesFrom(Tail(rest), all_nodes, cfg)

FilterTargetNodes(processed_nodes, cfg) ==
    FilterTargetNodesFrom(processed_nodes, processed_nodes, cfg)

\* NodeProcessor.filter_nodes_by_prefix
FilterNodesByPrefix(nodes) == SelectSeq(nodes, LAMBDA node : node.prefix # NoPrefix)

\* NodeProcessor.handle_duplicate_names: one node per base name, in the order
\* the base names first appear; of several nodes the first with the lowest
\* second id segment.
HandleDuplicateNames(nodes) ==
    LET index == [i \in 1..Len(nodes) |-> i]
        firsts == SelectSeq(index, LAMBDA i :
                      \A j \in 1..(i - 1) : nodes[j].base_name # nodes[i].base_name)
        group(i) == {j \in 1..Len(nodes) : nodes[j].base_name = nodes[i].base_name}
        chosen(i) == CHOOSE j \in group(i) :
                         \A k \in group(i) :
                             \/ nodes[j].id[2] < nodes[k].id[2]
                             \/ (nodes[j].id[2] = nodes[k].id[2] /\ j <= k)
    IN [k \in 1..Len(firsts) |-> nodes[chosen(firsts[k])]]

\* A call of get_filtered_nodes_for_export, before it ran.
ProcessCall(nodes, cfg) ==
    [op |-> "process", nodes |-> nodes, cfg |-> cfg, pc |-> "called",
     processed |-> <<>>, value |-> <<>>]

\* NodeProcessor.get_filtered_nodes_for_export on one page of visible nodes.
GetFilteredNodesForExport ==
    /\ fn.op = "process" /\ fn.pc = "called"
    /\ LET processed_nodes == [i \in 1..Len(fn.nodes) |-> ProcessedNode(fn.nodes[i], fn.cfg)]
           targeted == IF fn.cfg.enabled THEN FilterTargetNodes(processed_nodes, fn.cfg)
                       ELSE processed_nodes
       IN fn' = [fn EXCEPT !.pc = "returned", !.processed = processed_nodes,
                           !.value = HandleDuplicateNames(FilterNodesByPrefix(targeted))]
    /\ UNCHANGED <<detVars, api, exp, pipe>>

\* filter_export_ready_nodes on the result: only the export-ready nodes stay.
FilterExportReadyNodes ==
    /\ fn.op = "process" /\ fn.pc = "returned"
    /\ fn' = [fn EXCEPT !.pc = "filtered",
                        !.value = SelectSeq(fn.value, LAMBDA node : node.export_ready)]
    /\ UNCHANGED <<detVars, api, exp, pipe>>

TargetNodesConfigs ==
    [enabled : BOOLEAN, node_ids : SUBSET ProcessorIds, process_children : BOOLEAN]

InitNodeProcessor ==
    /\ impl = "server"
    /\ cacheFile = FileAbsent
    /\ det = NoDetector
    /\ result = NoResult
    /\ svc = NoService
    /\ api = NoApi
    /\ exp = NoExport
    /\ pipe = NoPipeline
    /\ \E nodes \in VisibleNodeLists, cfg \in TargetNodesConfigs :
          fn = ProcessCall(nodes, cfg)

NextNodeProcessor ==
    \/ GetFilteredNodesForExport
    \/ FilterExportReadyNodes

SpecNodeProcessor == InitNodeProcessor /\ [][NextNodeProcessor]_vars

(***************************************************************************)
(* Node processor: claims                                                  *)
(***************************************************************************)
HasNamingPrefix(name) ==
    \E i \in 1..Len(NamingPrefixes) : StartsWith(name, NamingPrefixes[i].value)

\* C18 (as claimed): a processed node is export-ready if and only if its name
\* starts with a configured naming prefix and its id is in the (enabled)
\* target-node list.
C18_PrefixAndTargetIff ==
    (fn.op = "process" /\ fn.pc # "called" /\ fn.cfg.enabled) =>
        \A i \in 1..Len(fn.processed) :
            fn.processed[i].export_ready <=>
                (/\ HasNamingPrefix(fn.processed[i].name)
                 /\ fn.processed[i].id \in fn.cfg.node_ids)

\* C18 (amended): a processed node is export-ready if and only if it has no
\* validation error, its name starts with a configured naming prefix and its
\* id is in the enabled target-node list; a node with only the prefix or only
\* the target id is never export-ready.
C18_ExportReadyAnd ==
    (fn.op = "process" /\ fn.pc # "called") =>
        \A i \in 1..Len(fn.processed) :
            LET node == fn.processed[i]
                by_prefix == HasNamingPrefix(node.name)
                by_target == node.id \in fn.cfg.node_ids
            IN /\ node.export_ready <=>
                    (/\ by_prefix /\ by_target /\ fn.cfg.enabled
                     /\ ValidateNode(node.name, node.type) = {})
               /\ (by_prefix # by_target) => ~node.export_ready

\* C18 witness: a returned call with an export-ready node (prefix and target)
\* and a node that has the prefix without being a target and is not
\* export-ready.
C18_Witness ==
    /\ fn.op = "process" /\ fn.pc = "returned" /\ Len(fn.processed) = 2
    /\ fn.processed[1].export_ready
    /\ HasNamingPrefix(fn.processed[2].name)
    /\ fn.processed[2].id \notin fn.cfg.node_ids
    /\ ~fn.processed[2].export_ready

(***************************************************************************)
(* Filename sanitizers                                                     *)
(***************************************************************************)
\* The characters of the names handed to the sanitizers: an upper-case and a
\* lower-case letter, two of the invalid characters, and the characters the
\* sanitizers treat specially.
SanitizeChars == {"A", "a", "/", "*", " ", "-", "_", "."}

Repeat(c, n) == [i \in 1..n |-> c]

\* Short names, and the same names after 99 letters "a" (longer than the
\* length limit from the second character on).
SanitizeInputs ==
    SeqsUpTo(SanitizeChars, MaxTail)
    \cup { Repeat("a", MaxFileNameLength - 1) \o tail : tail \in SeqsUpTo(SanitizeChars, MaxTail) }

MapChars(name, f(_)) == [i \in 1..Len(name) |-> f(name[i])]

\* str.lower on the characters above
Lower(c) ==
    CASE c = "A" -> "a" [] c = "F" -> "f" [] c = "G" -> "g"
      [] c = "H" -> "h" [] c = "I" -> "i" [] OTHER -> c

\* str.isalnum on the characters above
IsAlnum(c) == c \in {"A", "a"}

\* The positions of a name, in order.
Positions(name) == [i \in 1..Len(name) |-> i]

\* re.sub(r"[-_]+", "-", name): every run of "-" and "_" becomes one "-".
CollapseDashes(name) ==
    LET runEnds == SelectSeq(Positions(name), LAMBDA i :
                       ~(/\ name[i] \in {"-", "_"}
                         /\ i < Len(name)
                         /\ name[i + 1] \in {"-", "_"}))
    IN [k \in 1..Len(runEnds) |->
            IF name[runEnds[k]] \in {"-", "_"} THEN "-" ELSE name[runEnds[k]]]

\* the "while '__' in safe_name" loop: every run of "_" becomes one "_".
CollapseUnderscores(name) ==
    LET runEnds == SelectSeq(Positions(name), LAMBDA i :
                       ~(name[i] = "_" /\ i < Len(name) /\ name[i + 1] = "_"))
    IN [k \in 1..Len(runEnds) |-> name[runEnds[k]]]

\* str.rstrip("-_") and str.strip("-_")
RStrip(name) ==
    LET kept == {i \in 1..Len(name) : name[i] \notin {"-", "_"}}
    IN IF kept = {} THEN <<>>
       ELSE SubSeq(name, 1, CHOOSE i \in kept : \A j \in kept : j <= i)

LStrip(name) ==
    LET kept == {i \in 1..Len(name) : name[i] \notin {"-", "_"}}
    IN IF kept = {} THEN <<>>
       ELSE SubSeq(name, CHOOSE i \in kept : \A j \in kept : i <= j, Len(name))

Strip(name) == LStrip(RStrip(name))

Unnamed == <<"u","n","n","a","m","e","d">>

UnnamedNode == Unnamed \o <<"_","n","o","d","e">>

\* sanitize_filename of server/utils/helpers.py
SanitizeFilename(name) ==
    LET replaced == MapChars(name, LAMBDA c : IF c \in InvalidChars THEN "_" ELSE c)
        lowered  == MapChars(MapChars(replaced, Lower),
                             LAMBDA c : IF c = " " THEN "-" ELSE c)
        stripped == Strip(CollapseDashes(lowered))
        limited  == IF Len(stripped) > MaxFileNameLength
                    THEN RStrip(SubSeq(stripped, 1, MaxFileNameLength))
                    ELSE stripped
    IN IF limited = <<>> THEN Unnamed ELSE limited

\* FigmaAPIClient.sanitize_filename: the same steps as the helper.
ClientSanitizeFilename(name) ==
    LET replaced == MapChars(name, LAMBDA c : IF c \in InvalidChars THEN "_" ELSE c)
        lowered  == MapChars(MapChars(replaced, Lower),
                             LAMBDA c : IF c = " " THEN "-" ELSE c)
        stripped == Strip(CollapseDashes(lowered))
        limited  == IF Len(stripped) > MaxFileNameLength
                    THEN RStrip(SubSeq(stripped, 1, MaxFileNameLength))
                    ELSE stripped
    IN IF limited = <<>> THEN Unnamed ELSE limited

\* ExportEngine._sanitize_filename
EngineSanitizeFilename(filename) ==
    LET kept == SelectSeq(filename, LAMBDA c : IsAlnum(c) \/ c \in {" ", "-", "_", "."})
        safe_name == CollapseUnderscores(
                         MapChars(kept, LAMBDA c : IF c = " " THEN "_" ELSE c))
    IN IF safe_name = <<>> THEN UnnamedNode ELSE safe_name

Sanitizers == {"helpers", "api_client", "export_engine"}

SanitizeCall(which, name) ==
    [op |-> "sanitize", impl |-> which, name |-> name, pc |-> "called", value |-> <<>>]

HelperSanitize ==
    /\ fn.op = "sanitize" /\ fn.pc = "called" /\ fn.impl = "helpers"
    /\ fn' = [fn EXCEPT !.pc = "returned", !.value = SanitizeFilename(fn.name)]
    /\ UNCHANGED <<detVars, api, exp, pipe>>

ClientSanitize ==
    /\ fn.op = "sanitize" /\ fn.pc = "called" /\ fn.impl = "api_client"
    /\ fn' = [fn EXCEPT !.pc = "returned", !.value = ClientSanitizeFilename(fn.name)]
    /\ UNCHANGED <<detVars, api, exp, pipe>>

EngineSanitize ==
    /\ fn.op = "sanitize" /\ fn.pc = "called" /\ fn.impl = "export_engine"
    /\ fn' = [fn EXCEPT !.pc = "returned", !.value = EngineSanitizeFilename(fn.name)]
    /\ UNCHANGED <<detVars, api, exp, pipe>>

InitSanitize ==
    /\ impl = "server"
    /\ cacheFile = FileAbsent
    /\ det = NoDetector
    /\ result = NoResult
    /\ svc = NoService
    /\ api = NoApi
    /\ exp = NoExport
    /\ pipe = NoPipeline
    /\ \E which \in Sanitizers, name \in SanitizeInputs : fn = SanitizeCall(which, name)

NextSanitize ==
    \/ HelperSanitize
    \/ ClientSanitize
    \/ EngineSanitize

SpecSanitize == InitSanitize /\ [][NextSanitize]_vars

(***************************************************************************)
(* Filename sanitizers: claims                                             *)
(***************************************************************************)
\* C20 (as claimed): the output of a filename sanitizer holds none of the
\* characters <>:"/\|?*, holds no upper-case letter, is at most 100
\* characters long and is not empty; it is "unnamed" when the input holds
\* nothing but invalid characters, spaces, dashes and underscores.
C20_SafeFilename ==
    (fn.op = "sanitize" /\ fn.pc = "returned") =>
        /\ \A i \in 1..Len(fn.value) : fn.value[i] \notin InvalidChars
        /\ \A i \in 1..Len(fn.value) : fn.value[i] # "A"
        /\ Len(fn.value) <= 100
        /\ fn.value # <<>>
        /\ (\A i \in 1..Len(fn.name) : fn.name[i] \in InvalidChars \cup {" ", "-", "_"})
              => fn.value = Unnamed

(***************************************************************************)
(* Dev-ready detector                                                      *)
(***************************************************************************)
\* Scores are kept in tenths of a point: the 25 points of the naming rule
\* are 250 and max_score (100.0) is 1000; every sum the code forms is a
\* multiple of 2.5 and exact in floating point.
MaxScore == 1000

StandardSizes == { <<16, 16>>, <<24, 24>>, <<32, 32>>, <<48, 48>>, <<64, 64>> }

WipKeywords ==
    { <<"w","i","p">>, <<"d","r","a","f","t">>, <<"t","e","m","p">>,
      <<"t","e","s","t">>, <<"p","l","a","c","e","h","o","l","d","e","r">> }

ApprovedKeywords ==
    { <<"a","p","p","r","o","v","e","d">>, <<"r","e","a","d","y">>,
      <<"f","i","n","a","l">>, <<"p","r","o","d","u","c","t","i","o","n">> }

ExportableTypes == {"COMPONENT", "INSTANCE", "FRAME", "GROUP"}

KebabChars ==
    {"a","b","c","d","e","f","g","h","i","j","k","l","m","n","o","p","q","r","s",
     "t","u","v","w","x","y","z","0","1","2","3","4","5","6","7","8","9"}

Digits == {"0","1","2","3","4","5","6","7","8","9"}

\* "Frame 3", "Group 1", "icon-heart", "Icon Heart!!", "test-ready",
\* "final-draft", "temp-icon", "approved-icon", "untitled", "3d-icon", "a",
\* "", and a name of 51 letters.
DevReadyNames ==
    { <<"F","r","a","m","e"," ","3">>,
      <<"G","r","o","u","p"," ","1">>,
      <<"i","c","o","n","-","h","e","a","r","t">>,
      <<"I","c","o","n"," ","H","e","a","r","t","!","!">>,
      <<"t","e","s","t","-","r","e","a","d","y">>,
      <<"f","i","n","a","l","-","d","r","a","f","t">>,
      <<"t","e","m","p","-","i","c","o","n">>,
      <<"a","p","p","r","o","v","e","d","-","i","c","o","n">>,
      <<"u","n","t","i","t","l","e","d">>,
      <<"3","d","-","i","c","o","n">>,
      <<"a">>,
      <<>>,
      Repeat("a", 51) }

\* widths and heights, in pixels
DevReadySizes == {-1, 0, 24, 25, 26, 37, 41, 1001}

DevReadyTypes == {"COMPONENT", "FRAME", "TEXT"}

Abs(x) == IF x < 0 THEN -x ELSE x

\* keyword in name
Contains(name, keyword) ==
    \E i \in 1..(Len(name) - Len(keyword) + 1) :
        SubSeq(name, i, i + Len(keyword) - 1) = keyword

ContainsAny(name, keywords) == \E keyword \in keywords : Contains(name, keyword)

LowerName(name) == [i \in 1..Len(name) |-> Lower(name[i])]

\* DevReadyDetector._check_naming_convention: ^[a-z0-9]+(-[a-z0-9]+)*$ on the
\* lower-cased name.
CheckNamingConvention(name) ==
    LET lowered == LowerName(name)
    IN /\ lowered # <<>>
       /\ \A i \in 1..Len(lowered) : lowered[i] \in KebabChars \cup {"-"}
       /\ lowered[1] # "-" /\ lowered[Len(lowered)] # "-"
       /\ \A i \in 1..(Len(lowered) - 1) : ~(lowered[i] = "-" /\ lowered[i + 1] = "-")

\* DevReadyDetector._check_size_standards
CheckSizeStandards(width, height) ==
    (IF Abs(width - height) < 1 THEN 100 ELSE 0)
    + (IF \E s \in StandardSizes : Abs(width - s[1]) < 2 /\ Abs(height - s[2]) < 2
       THEN 100 ELSE 0)

\* DevReadyDetector._check_completion_status
CheckCompletionStatus(name) ==
    IF \/ Contains(LowerName(name), <<"u","n","t","i","t","l","e","d">>)
       \/ StartsWith(name, <<"F","r","a","m","e"," ">>)
       \/ StartsWith(name, <<"G","r","o","u","p"," ">>)
    THEN 0
    ELSE IF ContainsAny(LowerName(name), WipKeywords) THEN 50
    ELSE 200

\* DevReadyDetector._check_export_readiness
CheckExportReadiness(width, height, node_type) ==
    IF node_type \notin ExportableTypes THEN 0
    ELSE IF width <= 0 \/ height <= 0 THEN 0
    ELSE IF width > 1000 \/ height > 1000 THEN 100
    ELSE 200

\* DevReadyDetector._check_semantic_quality
CheckSemanticQuality(name) ==
    LET by_length == IF Len(name) < 2 THEN 0 ELSE IF Len(name) > 50 THEN 50 ELSE 150
    IN IF name # <<>> /\ name[1] \in Digits THEN by_length \div 2 ELSE by_length

\* _determine_status giving REVIEW from 0.5 on.
DetermineStatusLenient(name, score) ==
    IF ContainsAny(LowerName(name), ApprovedKeywords)
    THEN (IF score * 10 >= 8 * MaxScore THEN "approved" ELSE "review")
    ELSE IF ContainsAny(LowerName(name), WipKeywords) THEN "draft"
    ELSE IF score * 10 >= 9 * MaxScore THEN "ready"
    ELSE IF score * 10 >= 8 * MaxScore THEN "approved"
    ELSE IF score * 10 >= 5 * MaxScore THEN "review"
    ELSE "draft"

\* DevReadyDetector._determine_status on score / max_score
DetermineStatus(name, score) ==
    IF ContainsAny(LowerName(name), ApprovedKeywords)
    THEN (IF score * 10 >= 8 * MaxScore THEN "approved" ELSE "review")
    ELSE IF ContainsAny(LowerName(name), WipKeywords) THEN "draft"
    ELSE IF score * 10 >= 9 * MaxScore THEN "ready"
    ELSE IF score * 10 >= 8 * MaxScore THEN "approved"
    ELSE IF score * 10 >= 6 * MaxScore THEN "review"
    ELSE "draft"

\* the sum of the five partial scores with the naming rule worth 125 points.
TotalScoreHeavyNaming(name, width, height, node_type) ==
    (IF CheckNamingConvention(name) THEN 1250 ELSE 0)
    + CheckSizeStandards(width, height)
    + CheckCompletionStatus(name)
    + CheckExportReadiness(width, height, node_type)
    + CheckSemanticQuality(name)

\* the score assess_readiness adds up
TotalScore(name, width, height, node_type) ==
    (IF CheckNamingConvention(name) THEN 250 ELSE 0)
    + CheckSizeStandards(width, height)
    + CheckCompletionStatus(name)
    + CheckExportReadiness(width, height, node_type)
    + CheckSemanticQuality(name)

AssessCall(name, width, height, node_type) ==
    [op |-> "assess", name |-> name, width |-> width, height |-> height,
     type |-> node_type, pc |-> "called", score |-> 0, status |-> "unknown"]

\* DevReadyDetector.assess_readiness
AssessReadiness ==
    /\ fn.op = "assess" /\ fn.pc = "called"
    /\ LET score == TotalScore(fn.name, fn.width, fn.height, fn.type)
       IN fn' = [fn EXCEPT !.pc = "returned", !.score = score,
                           !.status = DetermineStatus(fn.name, score)]
    /\ UNCHANGED <<detVars, api, exp, pipe>>

InitDevReady ==
    /\ impl = "server"
    /\ cacheFile = FileAbsent
    /\ det = NoDetector
    /\ result = NoResult
    /\ svc = NoService
    /\ api = NoApi
    /\ exp = NoExport
    /\ pipe = NoPipeline
    /\ \E name \in DevReadyNames, width \in DevReadySizes, height \in DevReadySizes,
          node_type \in DevReadyTypes :
            fn = AssessCall(name, width, height, node_type)

NextDevReady == AssessReadiness

SpecDevReady == InitDevReady /\ [][NextDevReady]_vars

(***************************************************************************)
(* Dev-ready detector: claims                                              *)
(***************************************************************************)
\* C21: the score assess_readiness returns (score / max_score) lies in [0, 1]
\* for every name, width, height and type.
C21_ScoreInUnitInterval ==
    (fn.op = "assess" /\ fn.pc = "returned") =>
        (0 <= fn.score /\ fn.score <= MaxScore)

\* C21 witness: a call that returned the full score, and so the upper end of
\* the interval.
C21_Witness ==
    /\ fn.op = "assess" /\ fn.pc = "returned"
    /\ fn.score = MaxScore

\* C22: a node named "Frame 3" is given status DRAFT, whatever its width,
\* height and type.
C22_FrameIsDraft ==
    (fn.op = "assess" /\ fn.pc = "returned"
        /\ fn.name = <<"F","r","a","m","e"," ","3">>) =>
        fn.status = "draft"

\* C22 witness: "Frame 3" assessed at its best, a 24x24 COMPONENT, scoring
\* 55 points.
C22_Witness ==
    /\ fn.op = "assess" /\ fn.pc = "returned"
    /\ fn.name = <<"F","r","a","m","e"," ","3">>
    /\ fn.width = 24 /\ fn.height = 24 /\ fn.type = "COMPONENT"
    /\ fn.score = 550

\* C23 (as claimed): every node whose name contains a WIP keyword is given
\* status DRAFT, whatever its score.
C23_WipIsDraft ==
    (fn.op = "assess" /\ fn.pc = "returned"
        /\ ContainsAny(LowerName(fn.name), WipKeywords)) =>
        fn.status = "draft"

(***************************************************************************)
(* BackgroundWorker: sync jobs on one FigmaSyncService                     *)
(***************************************************************************)
\* The sync_ids of the jobs (generate_sync_id gives each request its own).
SyncIds == {"sync_a", "sync_b"}

\* An entry of running_jobs or completed_jobs: its status ("none" when the
\* dictionary has no entry), whether its errors list is non-empty, and the
\* exported and failed counts of its progress.
NoJob == [status |-> "none", errors |-> FALSE, exported |-> 0, failed |-> 0]

\* The coroutine of one process_sync_job call: the await it stands at, the
\* number of nodes it selected for export and how many of them its batches
\* have handled, what process_sync returned; and, for the record, whether
\* cancel_job has returned True for its sync_id, how many nodes it downloaded
\* and whether it called _save_cache after that.
NoCoroutine ==
    [pc |-> "none", todo |-> 0, done |-> 0, result |-> "none",
     exported |-> 0, failed |-> 0,
     cancelled |-> FALSE, late |-> 0, lateCache |-> FALSE]

\* BackgroundWorker(): one FigmaSyncService with its self.stats, no jobs.
NoWorker ==
    [op |-> "worker",
     running |-> [j \in SyncIds |-> NoJob],
     completed |-> [j \in SyncIds |-> NoJob],
     co |-> [j \in SyncIds |-> NoCoroutine],
     stats |-> [exported |-> 0, failed |-> 0]]

Min(a, b) == IF a <= b THEN a ELSE b

\* The end of process_sync_job writing completed_jobs[sync_id] with status
\* "completed" whether or not the entry is still in running_jobs.
FinishJobRegardless(w, j, kind, exported, failed) ==
    [w EXCEPT !.completed[j] = [w.running[j] EXCEPT !.status = "completed",
                                                    !.exported = exported,
                                                    !.failed = failed],
              !.running[j] = NoJob,
              !.co[j] = [w.co[j] EXCEPT !.pc = "done", !.result = kind,
                                        !.exported = exported, !.failed = failed]]

\* process_sync_job after process_sync returned: the update of
\* running_jobs[sync_id] to "completed" with the counts of the result
\* (result.get(..., 0)), then the move to completed_jobs.  When the entry is
\* gone the update raises KeyError, and the except branch, finding no entry,
\* changes nothing.
FinishJob(w, j, kind, exported, failed) ==
    LET c == [w.co[j] EXCEPT !.pc = "done", !.result = kind,
                             !.exported = exported, !.failed = failed]
    IN
    IF w.running[j].status # "none"
    THEN [w EXCEPT !.completed[j] = [w.running[j] EXCEPT !.status = "completed",
                                                        !.exported = exported,
                                                        !.failed = failed],
                   !.running[j] = NoJob,
                   !.co[j] = c]
    ELSE [w EXCEPT !.co[j] = c]

\* The except branch of process_sync_job: an entry still in running_jobs
\* becomes "failed" with the error and moves to completed_jobs.
FailJob(w, j) ==
    LET c == [w.co[j] EXCEPT !.pc = "done", !.result = "raised"]
    IN
    IF w.running[j].status # "none"
    THEN [w EXCEPT !.completed[j] = [w.running[j] EXCEPT !.status = "failed",
                                                        !.errors = TRUE],
                   !.running[j] = NoJob,
                   !.co[j] = c]
    ELSE [w EXCEPT !.co[j] = c]

\* trigger_sync / _handle_sync_figma_assets: a valid request queues
\* process_sync_job under a new sync_id.
QueueJob(j) ==
    /\ fn.op = "worker"
    /\ fn.co[j].pc = "none"
    /\ fn' = [fn EXCEPT !.co[j].pc = "queued"]
    /\ UNCHANGED <<detVars, api, exp, pipe>>

\* process_sync_job from its start to the first await of process_sync: the
\* entry in running_jobs with status "running".
ProcessSyncJobStart(j) ==
    /\ fn.op = "worker"
    /\ fn.co[j].pc = "queued"
    /\ fn' = [fn EXCEPT !.running[j] = [NoJob EXCEPT !.status = "running"],
                        !.co[j].pc = "fileinfo"]
    /\ UNCHANGED <<detVars, api, exp, pipe>>

\* get_file_info returns: without file information process_sync returns
\* {"error": ...} and the job is finished with that result.
GetFileInfoReturns(j) ==
    /\ fn.op = "worker"
    /\ fn.co[j].pc = "fileinfo"
    /\ \E found \in BOOLEAN :
        fn' = IF found THEN [fn EXCEPT !.co[j].pc = "structure"]
              ELSE FinishJob(fn, j, "error", 0, 0)
    /\ UNCHANGED <<detVars, api, exp, pipe>>

\* get_node_structure_with_fallback returns: without a node process_sync
\* returns {"error": ...}; with one, detect_changes runs (it raises on a cache
\* whose "nodes" is no dictionary) and the nodes to export are selected; with
\* none selected process_sync returns {"message": ...}.
GetNodeStructureReturns(j) ==
    /\ fn.op = "worker"
    /\ fn.co[j].pc = "structure"
    /\ \E outcome \in {"node", "nothing", "raise"}, todo \in 0..MaxNodes :
        fn' = CASE outcome = "nothing" -> FinishJob(fn, j, "error", 0, 0)
                [] outcome = "raise" -> FailJob(fn, j)
                [] outcome = "node" /\ todo = 0 -> FinishJob(fn, j, "uptodate", 0, 0)
                [] OTHER -> [fn EXCEPT !.co[j].pc = "export", !.co[j].todo = todo,
                                       !.co[j].done = 0]
    /\ UNCHANGED <<detVars, api, exp, pipe>>

\* _process_batch on the next batch of a job: without SVG URLs only the local
\* batch_stats counts the failures; with them every node adds one to
\* self.stats["exported"] or to self.stats["failed"].
ProcessBatch(j) ==
    /\ fn.op = "worker"
    /\ fn.co[j].pc = "export"
    /\ fn.co[j].done < fn.co[j].todo
    /\ LET n == Min(BatchSize, fn.co[j].todo - fn.co[j].done)
       IN \E urls \in BOOLEAN, saved \in 0..n :
            /\ ~urls => saved = 0
            /\ fn' = [fn EXCEPT
                        !.stats.exported = @ + saved,
                        !.stats.failed = IF urls THEN @ + (n - saved) ELSE @,
                        !.co[j].done = @ + n,
                        !.co[j].late = IF fn.co[j].cancelled THEN @ + saved ELSE @]
    /\ UNCHANGED <<detVars, api, exp, pipe>>

\* process_sync after its last batch: _save_cache, the report (whose file
\* write may raise), the summary read from self.stats, and the end of
\* process_sync_job.
SaveCacheAndReturn(j) ==
    /\ fn.op = "worker"
    /\ fn.co[j].pc = "export"
    /\ fn.co[j].done = fn.co[j].todo
    /\ \E report \in BOOLEAN :
        LET w == [fn EXCEPT !.co[j].lateCache = fn.co[j].cancelled]
        IN fn' = IF report
                 THEN FinishJob(w, j, "summary", fn.stats.exported, fn.stats.failed)
                 ELSE FailJob(w, j)
    /\ UNCHANGED <<detVars, api, exp, pipe>>

\* cancel_job that also ends the coroutine of the job.
CancelJobInterrupting(j) ==
    /\ fn.op = "worker"
    /\ fn.running[j].status # "none"
    /\ fn' = [fn EXCEPT !.completed[j] = [fn.running[j] EXCEPT !.status = "cancelled"],
                        !.running[j] = NoJob,
                        !.co[j].cancelled = TRUE,
                        !.co[j].pc = "done"]
    /\ UNCHANGED <<detVars, api, exp, pipe>>

\* cancel_job(sync_id) on a job in running_jobs: status "cancelled" and the
\* move to completed_jobs; the task is not touched.
CancelJob(j) ==
    /\ fn.op = "worker"
    /\ fn.running[j].status # "none"
    /\ fn' = [fn EXCEPT !.completed[j] = [fn.running[j] EXCEPT !.status = "cancelled"],
                        !.running[j] = NoJob,
                        !.co[j].cancelled = TRUE]
    /\ UNCHANGED <<detVars, api, exp, pipe>>

\* cleanup_old_jobs: every entry of completed_jobs has a completed_at and is
\* deleted.
CleanupOldJobs ==
    /\ fn.op = "worker"
    /\ \E j \in SyncIds : fn.completed[j].status # "none"
    /\ fn' = [fn EXCEPT !.completed = [j \in SyncIds |-> NoJob]]
    /\ UNCHANGED <<detVars, api, exp, pipe>>

\* One step of the coroutine of job j.
CoroutineStep(j) ==
    \/ ProcessSyncJobStart(j)
    \/ GetFileInfoReturns(j)
    \/ GetNodeStructureReturns(j)
    \/ ProcessBatch(j)
    \/ SaveCacheAndReturn(j)

InitWorker ==
    /\ impl = "server"
    /\ cacheFile = FileAbsent
    /\ det = NoDetector
    /\ result = NoResult
    /\ svc = NoService
    /\ api = NoApi
    /\ exp = NoExport
    /\ pipe = NoPipeline
    /\ fn = NoWorker

NextWorker ==
    \/ \E j \in SyncIds : QueueJob(j)
    \/ \E j \in SyncIds : ProcessSyncJobStart(j)
    \/ \E j \in SyncIds : GetFileInfoReturns(j)
    \/ \E j \in SyncIds : GetNodeStructureReturns(j)
    \/ \E j \in SyncIds : ProcessBatch(j)
    \/ \E j \in SyncIds : SaveCacheAndReturn(j)
    \/ \E j \in SyncIds : CancelJob(j)
    \/ CleanupOldJobs

SpecWorker == InitWorker /\ [][NextWorker]_vars

\* The event loop runs every task that is ready, and every awaited request
\* returns: the coroutine of a started job goes on.
SpecWorkerFair ==
    SpecWorker /\ \A j \in SyncIds : WF_vars(CoroutineStep(j))

\* cancel_job took effect on job j in this step.
CancelledNow(j) ==
    /\ fn.running[j].status # "none"
    /\ fn'.running[j].status = "none"
    /\ fn'.completed[j].status = "cancelled"

\* C24: cancelling a running job only records status cancelled: the step
\* leaves the position and the progress of the job's coroutine as they were,
\* and the coroutine then goes on to its end.
C24_CancelIsFlagOnly ==
    /\ [][\A j \in SyncIds :
            CancelledNow(j) =>
                /\ fn'.co[j].pc = fn.co[j].pc
                /\ fn'.co[j].todo = fn.co[j].todo
                /\ fn'.co[j].done = fn.co[j].done]_vars
    /\ \A j \in SyncIds :
        (fn.co[j].cancelled /\ fn.co[j].result = "none") ~> (fn.co[j].result # "none")

\* C24 witness: a job cancelled before its export whose coroutine reached its
\* end having downloaded every selected node and saved the cache after the
\* cancellation.
C24_Witness ==
    \E j \in SyncIds :
        /\ fn.co[j].cancelled
        /\ fn.co[j].pc = "done" /\ fn.co[j].result = "summary"
        /\ fn.co[j].late = fn.co[j].todo /\ fn.co[j].late > 0
        /\ fn.co[j].lateCache

\* C27 (as claimed): a job has status completed only when process_sync
\* succeeded; a job whose process_sync returned an error result is recorded as
\* failed, with the error in its errors list.
C27_CompletedOnlyOnSuccess ==
    \A j \in SyncIds :
        /\ fn.completed[j].status = "completed" =>
                fn.co[j].result \in {"summary", "uptodate"}
        /\ (fn.co[j].result = "error" /\ fn.completed[j].status \notin {"none", "cancelled"}) =>
                (fn.completed[j].status = "failed" /\ fn.completed[j].errors)

\* C28 (as claimed): the exported and failed counts that a process_sync call
\* returns add up to the number of nodes that call selected for export.
C28_CountsOfThisCall ==
    \A j \in SyncIds :
        fn.co[j].result = "summary" =>
            fn.co[j].exported + fn.co[j].failed = fn.co[j].todo

\* C29: once cancel_job has cancelled a job, the job is never again in
\* running_jobs and its entry in completed_jobs, as long as it is kept, has
\* status cancelled; and no sync_id is in both dictionaries.
C29_CancelledStays ==
    \A j \in SyncIds :
        /\ fn.co[j].cancelled =>
            /\ fn.running[j].status = "none"
            /\ fn.completed[j].status \in {"cancelled", "none"}
        /\ ~(fn.running[j].status # "none" /\ fn.completed[j].status # "none")

\* C29 witness: a cancelled job whose coroutine has since returned from
\* process_sync or raised, still recorded as cancelled.
C29_Witness ==
    \E j \in SyncIds :
        /\ fn.co[j].cancelled
        /\ fn.co[j].pc = "done" /\ fn.co[j].result \in {"summary", "error", "raised"}
        /\ fn.completed[j].status = "cancelled"

(***************************************************************************)
(* Sync requests: validation of the file key and the node id               *)
(***************************************************************************)
\* len(file_key) > 10 and len(node_id) > 5
MinFileKeyLength == 10
MinNodeIdLength == 5

\* A file key is whether all its characters are letters, digits, "_" or "-",
\* and its length.
FileKeys == {[wellFormed |-> c, length |-> n] : c \in BOOLEAN, n \in {10, 11, 22}}

\* validate_file_key
ValidateFileKey(key) == key.wellFormed /\ key.length > MinFileKeyLength

\* The number of characters of str(n).
RECURSIVE DecimalLength(_)
DecimalLength(n) == IF n < 10 THEN 1 ELSE 1 + DecimalLength(n \div 10)

RECURSIVE SumLengths(_)
SumLengths(parts) ==
    IF parts = <<>> THEN 0 ELSE DecimalLength(Head(parts)) + SumLengths(Tail(parts))

\* len(node_id): the digits of the segments and one separator between two
\* segments.
NodeIdLength(id) == SumLengths(id.parts) + (Len(id.parts) - 1)

\* validate_node_id: only digits and ":" and more than five characters.
ValidateNodeId(id) == id.sep \in {":", "none"} /\ NodeIdLength(id) > MinNodeIdLength

\* A sync request as it arrives at the HTTP endpoint or at the MCP tool.
SyncRequest(endpoint, key, id) ==
    [op |-> "request", pc |-> "received", endpoint |-> endpoint, file_key |-> key,
     node_id |-> id, response |-> "none"]

\* trigger_sync: the HTTPException(400) of a failed validation is raised
\* inside the try block, caught by "except Exception" and raised again with
\* status 500; a valid request is queued.
TriggerSync ==
    /\ fn.op = "request" /\ fn.pc = "received"
    /\ fn.endpoint = "http"
    /\ fn' = [fn EXCEPT !.pc = "answered",
                        !.response =
                            IF ValidateFileKey(fn.file_key) /\ ValidateNodeId(fn.node_id)
                            THEN "queued" ELSE "http_500"]
    /\ UNCHANGED <<detVars, api, exp, pipe>>

\* _handle_sync_figma_assets: an invalid file key or node id is answered with
\* a text; a valid request starts the job.
HandleSyncFigmaAssets ==
    /\ fn.op = "request" /\ fn.pc = "received"
    /\ fn.endpoint = "mcp"
    /\ fn' = [fn EXCEPT !.pc = "answered",
                        !.response =
                            CASE ~ValidateFileKey(fn.file_key) -> "invalid_file_key"
                              [] ~ValidateNodeId(fn.node_id) -> "invalid_node_id"
                              [] OTHER -> "queued"]
    /\ UNCHANGED <<detVars, api, exp, pipe>>

InitRequest ==
    /\ impl = "server"
    /\ cacheFile = FileAbsent
    /\ det = NoDetector
    /\ result = NoResult
    /\ svc = NoService
    /\ api = NoApi
    /\ exp = NoExport
    /\ pipe = NoPipeline
    /\ \E endpoint \in {"http", "mcp"}, key \in FileKeys, id \in ResolverInputs :
        fn = SyncRequest(endpoint, key, id)

NextRequest ==
    \/ TriggerSync
    \/ HandleSyncFigmaAssets

SpecRequest == InitRequest /\ [][NextRequest]_vars

\* C30 (as claimed): a request with a valid file key for a node id in "P:N"
\* or "P-N" form is queued, not rejected.
C30_ResolverIdsAccepted ==
    (fn.op = "request" /\ fn.pc = "answered"
        /\ ValidateFileKey(fn.file_key)
        /\ DetectFormat(fn.node_id) \in {"colon_format", "dash_format"}) =>
        fn.response = "queued"

(***************************************************************************)
(* Export names of the enhanced exporter                                   *)
(***************************************************************************)
\* The longest node list handed to export_nodes.
MaxNamedNodes == 3

\* The value None, which is no name.
None == <<"None">>

\* What follows the prefix in the names below: "ic", "ic_1", " ic" and "lg".
NameStems == { <<"i","c">>, <<"i","c","_","1">>, <<" ","i","c">>, <<"l","g">> }

\* The node names: every stem behind "svg_exporter_" and behind
\* "img_exporter_", and "ic_abc1234", "ic".
ExportNameInputs ==
    {SvgExporterPrefix \o s : s \in NameStems}
        \cup {ImgExporterPrefix \o s : s \in NameStems}
        \cup { <<"i","c","_","a","b","c","1","2","3","4">>, <<"i","c">> }

DuplicateHandlings == {"skip", "rename", "overwrite"}

\* str.strip(): the name without its leading and trailing blanks.
StripBlanks(name) ==
    LET kept == {i \in 1..Len(name) : name[i] # " "}
    IN IF kept = {} THEN <<>>
       ELSE SubSeq(name, CHOOSE i \in kept : \A j \in kept : i <= j,
                         CHOOSE i \in kept : \A j \in kept : j <= i)

\* str(n)
RECURSIVE DecimalChars(_)
DecimalChars(n) ==
    LET digit == <<"0","1","2","3","4","5","6","7","8","9">>[(n % 10) + 1]
    IN IF n < 10 THEN <<digit>> ELSE Append(DecimalChars(n \div 10), digit)

\* _clean_node_name: the name without a final "_" followed by six or more
\* letters or digits (the names here are lower case), stripped of blanks.
CleanNodeName(name) ==
    LET cuts == {i \in 1..Len(name) :
                    /\ name[i] = "_"
                    /\ Len(name) - i >= 6
                    /\ \A k \in (i + 1)..Len(name) : name[k] \in KebabChars}
    IN IF cuts = {} THEN StripBlanks(name)
       ELSE StripBlanks(SubSeq(name, 1, (CHOOSE i \in cuts : \A j \in cuts : i <= j) - 1))

\* _extract_prefixed_name
ExtractPrefixedName(name, prefix) ==
    IF StartsWith(name, prefix)
    THEN StripBlanks(SubSeq(name, Len(prefix) + 1, Len(name)))
    ELSE name

\* duplicate_tracker is the list of its entries, a name and its count, in the
\* order in which the names were first seen.
TrackerCount(tracker, name) ==
    LET hits == SelectSeq(tracker, LAMBDA e : e.name = name)
    IN IF hits = <<>> THEN 0 ELSE hits[1].count

\* _handle_duplicate_name: the first node of a name keeps it; a later one
\* counts up and is skipped (None), renamed (name_1, name_2, ...) or keeps the
\* name.
HandleDuplicateName(tracker, name, handling) ==
    IF TrackerCount(tracker, name) = 0
    THEN [tracker |-> Append(tracker, [name |-> name, count |-> 1]), value |-> name]
    ELSE LET count == TrackerCount(tracker, name) + 1
             bumped == [i \in 1..Len(tracker) |->
                            IF tracker[i].name = name
                            THEN [tracker[i] EXCEPT !.count = count]
                            ELSE tracker[i]]
         IN [tracker |-> bumped,
             value |-> CASE handling = "skip" -> None
                         [] handling = "rename" -> name \o <<"_">> \o DecimalChars(count - 1)
                         [] OTHER -> name]

\* get_export_name
GetExportName(tracker, name, export_type, handling) ==
    CASE export_type = "nodeID" ->
            [tracker |-> tracker, value |-> CleanNodeName(name)]
      [] export_type = "svg_exporter_" ->
            HandleDuplicateName(tracker, ExtractPrefixedName(name, SvgExporterPrefix), handling)
      [] export_type = "img_exporter_" ->
            HandleDuplicateName(tracker, ExtractPrefixedName(name, ImgExporterPrefix), handling)
      [] OTHER -> [tracker |-> tracker, value |-> name]

\* The naming loop of export_nodes over the filtered nodes: a node whose
\* export name is None or empty is left out.
RECURSIVE NamingLoop(_, _, _, _, _)
NamingLoop(nodes, tracker, processed, export_type, handling) ==
    IF nodes = <<>> THEN [tracker |-> tracker, processed |-> processed]
    ELSE LET got == GetExportName(tracker, Head(nodes).name, export_type, handling)
         IN NamingLoop(Tail(nodes), got.tracker,
                       IF got.value \in {None, <<>>} THEN processed
                       ELSE Append(processed, [id |-> Head(nodes).id, name |-> got.value]),
                       export_type, handling)

\* A call of export_nodes with no include or exclude pattern, before it ran.
ExportNodesCall(nodes, export_type, handling) ==
    [op |-> "export_nodes", pc |-> "called", nodes |-> nodes,
     export_type |-> export_type, duplicate_handling |-> handling,
     filtered |-> <<>>, processed |-> <<>>, duplicate_tracker |-> <<>>]

\* export_nodes on nodes that are all in the file: the filter loop, then the
\* export name of every filtered node, in the order of the list.
ExportNodes ==
    /\ fn.op = "export_nodes" /\ fn.pc = "called"
    /\ LET filtered == SelectSeq(fn.nodes, LAMBDA node :
                            ShouldExportNode(node.name, <<>>, <<>>, fn.export_type) = "yes")
           named == NamingLoop(filtered, <<>>, <<>>, fn.export_type, fn.duplicate_handling)
       IN fn' = [fn EXCEPT !.pc = "returned", !.filtered = filtered,
                           !.processed = named.processed,
                           !.duplicate_tracker = named.tracker]
    /\ UNCHANGED <<detVars, api, exp, pipe>>

InitExportNames ==
    /\ impl = "script"
    /\ cacheFile = FileAbsent
    /\ det = NoDetector
    /\ result = NoResult
    /\ svc = NoService
    /\ api = NoApi
    /\ exp = NoExport
    /\ pipe = NoPipeline
    /\ \E names \in SeqsUpTo(ExportNameInputs, MaxNamedNodes),
          export_type \in {"nodeID", "svg_exporter_", "img_exporter_"},
          handling \in DuplicateHandlings :
        fn = ExportNodesCall([i \in 1..Len(names) |-> [id |-> i, name |-> names[i]]],
                             export_type, handling)

NextExportNames == ExportNodes

SpecExportNames == InitExportNames /\ [][NextExportNames]_vars

\* C25 (as claimed): with duplicate_handling "rename" and a prefix export
\* type, no two nodes of one export_nodes run get the same export name.
C25_RenameGivesUniqueNames ==
    (fn.op = "export_nodes" /\ fn.pc = "returned"
        /\ fn.duplicate_handling = "rename"
        /\ fn.export_type \in {"svg_exporter_", "img_exporter_"}) =>
        \A i, j \in 1..Len(fn.processed) :
            fn.processed[i].name = fn.processed[j].name => i = j

(***************************************************************************)
(* Sync runs whose exports fail                                            *)
(***************************************************************************)
\* The number of process_sync runs followed.
MaxRuns == 2

\* One process_sync run: the current nodes it fetched, its force_sync, the
\* ids it selected for export and the ids whose export failed.
NoRun == [given |-> FALSE, current |-> <<>>, force |-> FALSE, selected |-> {},
          failed |-> {}]

\* The service and its runs: whether the instance exists, whether a run is in
\* its batch loop, the NodeInfo records of that run, the batches it has
\* processed, the run itself and the run before it, and the number of runs
\* started so far.
NoRetry ==
    [op |-> "retry", up |-> FALSE, pc |-> "idle", records |-> <<>>, done |-> 0,
     run |-> NoRun, prev |-> NoRun, runs |-> 0]

IdsOf(records) == {records[i].id : i \in 1..Len(records)}

\* FigmaSyncService(): a new instance, without a change detector.
RetryNewService ==
    /\ fn.op = "retry" /\ ~fn.up
    /\ fn' = [fn EXCEPT !.up = TRUE]
    /\ det' = NoDetector
    /\ UNCHANGED <<impl, cacheFile, result, svc, api, exp, pipe>>

\* process_sync up to its batch loop: the detector is set up (and the cache
\* loaded) only when the instance has none, detect_changes classifies the
\* fetched nodes against last_export_data, the nodes to export are selected;
\* with none selected the run ends.
RetrySyncStart ==
    /\ fn.op = "retry" /\ fn.up /\ fn.pc = "idle"
    /\ fn.runs < MaxRuns
    /\ \E current \in Fetches, force \in BOOLEAN :
        LET d == IF det.loaded THEN det ELSE LoadCache(cacheFile)
            records == CurrentRecords(d.nodes, current)
            todo == NodesToExport(records, force)
            run == [given |-> TRUE, current |-> current, force |-> force,
                    selected |-> IdsOf(todo), failed |-> {}]
        IN /\ det' = [d EXCEPT !.calls = IF @ = 0 THEN 1 ELSE 2]
           /\ fn' = [fn EXCEPT !.pc = IF todo = <<>> THEN "idle" ELSE "export",
                               !.records = records, !.done = 0,
                               !.run = run, !.prev = fn.run,
                               !.runs = @ + 1]
    /\ UNCHANGED <<impl, cacheFile, result, svc, api, exp, pipe>>

\* _process_batch on the next batch: without SVG URLs every node of the batch
\* has failed; with them a node fails when it has no URL or when
\* _save_node_svg returns False.
RetryProcessBatch ==
    /\ fn.op = "retry" /\ fn.pc = "export"
    /\ LET batches == Batches(NodesToExport(fn.records, fn.run.force))
       IN /\ fn.done < Len(batches)
          /\ \E urls \in BOOLEAN, saved \in SUBSET IdsOf(batches[fn.done + 1]) :
                /\ ~urls => saved = {}
                /\ fn' = [fn EXCEPT !.done = @ + 1,
                                    !.run.failed = @ \cup (IdsOf(batches[fn.done + 1]) \ saved)]
    /\ UNCHANGED <<detVars, api, exp, pipe>>

\* process_sync after its last batch: _save_cache(nodes, file_version) with
\* every NodeInfo of the run.
RetrySyncFinish ==
    /\ fn.op = "retry" /\ fn.pc = "export"
    /\ fn.done = Len(Batches(NodesToExport(fn.records, fn.run.force)))
    /\ \E ok \in BOOLEAN : cacheFile' = SaveCache(cacheFile, fn.records, ok)
    /\ fn' = [fn EXCEPT !.pc = "idle", !.done = 0]
    /\ UNCHANGED <<impl, det, result, svc, api, exp, pipe>>

\* The server process ends between two runs: the instance is gone, the cache
\* file stays.
RetryProcessExit ==
    /\ fn.op = "retry" /\ fn.up /\ fn.pc = "idle"
    /\ fn' = [fn EXCEPT !.up = FALSE, !.records = <<>>]
    /\ det' = NoDetector
    /\ UNCHANGED <<impl, cacheFile, result, svc, api, exp, pipe>>

InitRetry ==
    /\ impl = "server"
    /\ cacheFile = FileAbsent
    /\ det = NoDetector
    /\ result = NoResult
    /\ svc = NoService
    /\ api = NoApi
    /\ exp = NoExport
    /\ pipe = NoPipeline
    /\ fn = NoRetry

NextRetry ==
    \/ RetryNewService
    \/ RetrySyncStart
    \/ RetryProcessBatch
    \/ RetrySyncFinish
    \/ RetryProcessExit

SpecRetry == InitRetry /\ [][NextRetry]_vars

\* The node of a fetched list with the given id.
NodeOf(current, id) == current[CHOOSE i \in 1..Len(current) : current[i].id = id]

\* C26 (as claimed): a node whose export failed in the run before is selected
\* for export by a run without force_sync that fetches it unchanged.
C26_FailedIsRetried ==
    (fn.op = "retry" /\ fn.run.given /\ ~fn.run.force /\ fn.prev.given) =>
        \A id \in fn.prev.failed :
            (/\ id \in CurrentIds(fn.run.current)
             /\ NodeOf(fn.run.current, id) = NodeOf(fn.prev.current, id))
                => id \in fn.run.selected

====
